---------------------------- MODULE Spec2Model ----------------------------
(***************************************************************************)
(* Revival.ai: the App state machine (src/App.tsx) and the streaming       *)
(* report extractor analyzeVideoAndCreateRevivalPlan                       *)
(* (src/services/geminiService.ts).                                        *)
(*                                                                         *)
(* Text is a sequence of one-character strings, so that tags and fences    *)
(* can be cut anywhere by the fragmentation of the stream.  JavaScript     *)
(* values are tagged records: [t |-> "null"], [t |-> "undefined"],         *)
(* [t |-> "bool", v |-> b], [t |-> "num", v |-> n], [t |-> "str", v |-> s],*)
(* [t |-> "arr", v |-> elements, p |-> own named properties] and           *)
(* [t |-> "obj", v |-> function from keys to values].                      *)
(***************************************************************************)
EXTENDS Integers, Sequences, FiniteSets, TLC

VARIABLES
    hasApiKey,        \* App.tsx:11
    appState,         \* App.tsx:12
    youtubeLink,      \* App.tsx:13
    frames,           \* App.tsx:14
    revivalStrategy,  \* App.tsx:15
    errorMsg,         \* App.tsx:16
    thinkingLog,      \* App.tsx:17
    aistudio,         \* the host provides window.aistudio (App.tsx:21, 33)
    keyCheck,         \* where the mount effect checkApiKey is (App.tsx:19-30)
    selectPending,    \* openSelectKey() calls not yet settled (App.tsx:35)
    envApiKey,        \* process.env.API_KEY is set (geminiService.ts:46)
    pc,               \* where the pending handleStartAnalysis call is suspended
    fullText,         \* geminiService.ts:94
    thinkingText,     \* geminiService.ts:95
    calls,            \* history: one record per onThinking invocation of the call
    nChunks,          \* history: chunks delivered to the current call
    attempts,         \* history: analyses started
    result,           \* history: how the latest analysis call settled
    generatedImage,   \* AnalysisDashboard.tsx:17
    isGeneratingImage,\* AnalysisDashboard.tsx:18
    overlays,         \* the pending generateVisualOverlay calls, oldest first
    alerted,          \* history: the text of the latest alert()
    settled,          \* history: how the overlay call of the latest step settled
    view,             \* what the mounted dashboard renders of its props
    latest            \* history: the overlay call the dashboard started last

vars == <<hasApiKey, appState, youtubeLink, frames, revivalStrategy, errorMsg,
          thinkingLog, aistudio, keyCheck, selectPending, envApiKey, pc,
          fullText, thinkingText, calls, nChunks, attempts, result,
          generatedImage, isGeneratingImage, overlays, alerted, settled,
          view, latest>>

hostVars == <<aistudio, envApiKey>>
streamVars == <<fullText, thinkingText, calls, nChunks>>
dashVars == <<generatedImage, isGeneratingImage, overlays, alerted, settled,
              view, latest>>

(***************************************************************************)
(* Bounds of the model.                                                    *)
(***************************************************************************)
MaxChunks == 4       \* chunks of one stream, in SpecStream
MaxAppChunks == 2    \* chunks of one stream, in Spec
MaxAttempts == 2     \* analyses started
MaxSelecting == 1    \* key-selection dialogs open at once
MaxFragments == 2    \* fragments a text is split into, in SpecSplit
MaxOverlays == 2     \* overlay calls pending at once, in SpecDashboard

(***************************************************************************)
(* Text helpers.                                                           *)
(***************************************************************************)
Empty == << >>

\* s.startsWith(pat, position i), 1-based.
MatchAt(s, i, pat) ==
    /\ i >= 1
    /\ i + Len(pat) - 1 <= Len(s)
    /\ \A k \in 1..Len(pat) : s[i + k - 1] = pat[k]

\* The 1-based positions where pat occurs in s.
Occurrences(s, pat) == {i \in 1..(Len(s) + 1) : MatchAt(s, i, pat)}

\* The first position from i on where pat occurs in s; 0 when there is none.
RECURSIVE FirstAt(_, _, _)
FirstAt(s, pat, i) ==
    IF i + Len(pat) - 1 > Len(s) THEN 0
    ELSE IF (pat = Empty \/ s[i] = pat[1]) /\ MatchAt(s, i, pat) THEN i
    ELSE FirstAt(s, pat, i + 1)

\* String.prototype.indexOf, 1-based; 0 when absent.
IndexOf(s, pat) == FirstAt(s, pat, 1)

\* String.prototype.includes
Includes(s, pat) ==
    \E i \in 1..(Len(s) - Len(pat) + 1) :
        (pat = Empty \/ s[i] = pat[1]) /\ MatchAt(s, i, pat)

\* s.slice(i - 1), the text from 1-based position i on.
From(s, i) == SubSeq(s, i, Len(s))

IsPrefix(a, b) == Len(a) <= Len(b) /\ SubSeq(b, 1, Len(a)) = a

Min(S) == CHOOSE x \in S : \A y \in S : x <= y
Max(S) == CHOOSE x \in S : \A y \in S : x >= y

\* The number of consecutive characters of set cs in s from position i on.
RECURSIVE Run(_, _, _)
Run(s, i, cs) ==
    IF i > Len(s) \/ s[i] \notin cs THEN 0 ELSE 1 + Run(s, i + 1, cs)

OpenTag == <<"<","t","h","i","n","k","i","n","g",">">>
CloseTag == <<"<","/","t","h","i","n","k","i","n","g",">">>

(***************************************************************************)
(* fullText.match(/<thinking>([\s\S]*?)(?:<\/thinking>|$)/)                *)
(* The leftmost "<thinking>", then the shortest group after which either   *)
(* "</thinking>" starts or the text ends.                                  *)
(***************************************************************************)
ThinkingGroupEnds(s, start) ==
    {e \in start..(Len(s) + 1) : MatchAt(s, e, CloseTag) \/ e = Len(s) + 1}

ThinkingMatchGreedy(s) ==
    IF ~Includes(s, OpenTag)
    THEN [matched |-> FALSE, g1 |-> Empty]
    ELSE LET start == IndexOf(s, OpenTag) + Len(OpenTag)
             e == Max(ThinkingGroupEnds(s, start))
         IN  [matched |-> TRUE, g1 |-> SubSeq(s, start, e - 1)]

ThinkingMatchPartialTag(s) ==
    LET open == <<"<","t","h","i">>
    IN  IF ~Includes(s, open)
        THEN [matched |-> FALSE, g1 |-> Empty]
        ELSE LET start == IndexOf(s, open) + Len(open)
                 e == Min(ThinkingGroupEnds(s, start))
             IN  [matched |-> TRUE, g1 |-> SubSeq(s, start, e - 1)]

ThinkingMatchLastTag(s) ==
    IF ~Includes(s, OpenTag)
    THEN [matched |-> FALSE, g1 |-> Empty]
    ELSE LET start == Max(Occurrences(s, OpenTag)) + Len(OpenTag)
             e == Min(ThinkingGroupEnds(s, start))
         IN  [matched |-> TRUE, g1 |-> SubSeq(s, start, e - 1)]

ThinkingMatch(s) ==
    IF ~Includes(s, OpenTag)
    THEN [matched |-> FALSE, g1 |-> Empty]
    ELSE LET start == IndexOf(s, OpenTag) + Len(OpenTag)
             e == Min(ThinkingGroupEnds(s, start))
         IN  [matched |-> TRUE, g1 |-> SubSeq(s, start, e - 1)]

\* fullText.split("<thinking>")[1] || "": the text between the first and the
\* second occurrence of the separator (occurrences taken left to right,
\* without overlap; the tag cannot overlap itself).
SplitSecond(s) ==
    LET first == IndexOf(s, OpenTag)
        rest == From(s, first + Len(OpenTag))
        next == IndexOf(rest, OpenTag)
    IN  IF first = 0 THEN Empty
        ELSE IF next = 0 THEN rest
        ELSE SubSeq(rest, 1, next - 1)

ScanThinkingOnChange(full, oldThinking) ==
    LET thinkingMatch == ThinkingMatch(full)
        new == IF thinkingMatch.matched THEN thinkingMatch.g1
               ELSE IF Includes(full, OpenTag) THEN SplitSecond(full)
               ELSE oldThinking
    IN  [thinkingText |-> new, emit |-> new # oldThinking]

\* One pass of the loop body after the append, lines 103-110: the new
\* thinkingText and whether onThinking is invoked with it.
ScanThinking(full, oldThinking) ==
    LET thinkingMatch == ThinkingMatch(full)
    IN  IF thinkingMatch.matched
        THEN [thinkingText |-> thinkingMatch.g1, emit |-> TRUE]
        ELSE IF Includes(full, OpenTag)
        THEN [thinkingText |-> SplitSecond(full), emit |-> TRUE]
        ELSE [thinkingText |-> oldThinking, emit |-> FALSE]

(***************************************************************************)
(* JavaScript values.                                                      *)
(***************************************************************************)
EmptyFn == [x \in {} |-> x]
Null == [t |-> "null"]
Undefined == [t |-> "undefined"]
Bool(b) == [t |-> "bool", v |-> b]
Num(n) == [t |-> "num", v |-> n]
Str(s) == [t |-> "str", v |-> s]
Arr(elems) == [t |-> "arr", v |-> elems, p |-> EmptyFn]
Obj(f) == [t |-> "obj", v |-> f]

Put(f, k, x) == [y \in (DOMAIN f) \cup {k} |-> IF y = k THEN x ELSE f[y]]

\* ToBoolean
Truthy(x) ==
    CASE x.t = "bool" -> x.v
      [] x.t = "num" -> x.v # 0
      [] x.t = "str" -> x.v # Empty
      [] x.t \in {"obj", "arr"} -> TRUE
      [] OTHER -> FALSE

IsNullish(x) == x.t \in {"null", "undefined"}
IsPrimitive(x) == x.t \in {"bool", "num", "str"}

\* x.k for a named (non-index) key k of a non-nullish x: own property of an
\* object or an array, undefined on a boxed primitive.
GetProp(x, k) ==
    CASE x.t = "obj" -> IF k \in DOMAIN x.v THEN x.v[k] ELSE Undefined
      [] x.t = "arr" -> IF k \in DOMAIN x.p THEN x.p[k] ELSE Undefined
      [] OTHER -> Undefined

\* x.k = y on an object or an array
SetProp(x, k, y) ==
    IF x.t = "obj" THEN [x EXCEPT !.v = Put(@, k, y)]
    ELSE [x EXCEPT !.p = Put(@, k, y)]

(***************************************************************************)
(* JSON.parse, on the subset of JSON the texts of the model are written    *)
(* in: null, true, false, integers, strings without escapes, arrays and    *)
(* objects, with JSON whitespace.  (No text of the model holds a           *)
(* backslash, a fraction or an exponent.)                                  *)
(***************************************************************************)
WsChars == {" ", "\n", "\t", "\r"}
Digits == <<"0","1","2","3","4","5","6","7","8","9">>
DigitChars == {Digits[i] : i \in 1..10}
DigitValue(c) == (CHOOSE i \in 1..10 : Digits[i] = c) - 1

SkipWs(s, i) == IF i > Len(s) THEN i ELSE i + Run(s, i, WsChars)

ParseFail == [ok |-> FALSE, val |-> Undefined, next |-> 0]
ParseOk(x, n) == [ok |-> TRUE, val |-> x, next |-> n]

RECURSIVE Decimal(_)
Decimal(ds) ==
    IF ds = Empty THEN 0
    ELSE 10 * Decimal(SubSeq(ds, 1, Len(ds) - 1)) + DigitValue(ds[Len(ds)])

\* s[i] is a digit or the minus sign.
ParseNumber(s, i) ==
    LET neg == s[i] = "-"
        d == IF neg THEN i + 1 ELSE i
    IN  IF d > Len(s) \/ s[d] \notin DigitChars THEN ParseFail
        ELSE LET n == IF s[d] = "0" THEN 1 ELSE Run(s, d, DigitChars)
                 m == Decimal(SubSeq(s, d, d + n - 1))
             IN  ParseOk(Num(IF neg THEN 0 - m ELSE m), d + n)

\* s[i] is the opening quote.
ParseString(s, i) ==
    LET closing == {j \in (i + 1)..Len(s) : s[j] = "\""}
    IN  IF i > Len(s) \/ s[i] # "\"" \/ closing = {} THEN ParseFail
        ELSE LET j == Min(closing)
                 body == SubSeq(s, i + 1, j - 1)
             IN  IF \E k \in 1..Len(body) : body[k] \in {"\\", "\n", "\t", "\r"}
                 THEN ParseFail
                 ELSE ParseOk(Str(body), j + 1)

ParseLiteral(s, i) ==
    CASE MatchAt(s, i, <<"n","u","l","l">>) -> ParseOk(Null, i + 4)
      [] MatchAt(s, i, <<"t","r","u","e">>) -> ParseOk(Bool(TRUE), i + 4)
      [] MatchAt(s, i, <<"f","a","l","s","e">>) -> ParseOk(Bool(FALSE), i + 5)
      [] OTHER -> ParseFail

RECURSIVE ParseValue(_, _), ParseMembers(_, _, _), ParseElements(_, _, _)

\* A value starting at or after position i (leading whitespace skipped).
ParseValue(s, i0) ==
    LET i == SkipWs(s, i0)
    IN  IF i > Len(s) THEN ParseFail
        ELSE IF s[i] = "{" THEN
            LET j == SkipWs(s, i + 1)
            IN  IF j <= Len(s) /\ s[j] = "}" THEN ParseOk(Obj(EmptyFn), j + 1)
                ELSE ParseMembers(s, j, EmptyFn)
        ELSE IF s[i] = "[" THEN
            LET j == SkipWs(s, i + 1)
            IN  IF j <= Len(s) /\ s[j] = "]" THEN ParseOk(Arr(Empty), j + 1)
                ELSE ParseElements(s, j, Empty)
        ELSE IF s[i] = "\"" THEN ParseString(s, i)
        ELSE IF s[i] \in DigitChars \cup {"-"} THEN ParseNumber(s, i)
        ELSE ParseLiteral(s, i)

\* The members of an object from position i on; a repeated key keeps its
\* last value.
ParseMembers(s, i, acc) ==
    LET key == ParseString(s, i)
    IN  IF ~key.ok THEN ParseFail
        ELSE LET c == SkipWs(s, key.next)
             IN  IF c > Len(s) \/ s[c] # ":" THEN ParseFail
                 ELSE LET val == ParseValue(s, c + 1)
                      IN  IF ~val.ok THEN ParseFail
                          ELSE LET d == SkipWs(s, val.next)
                                   acc2 == Put(acc, key.val.v, val.val)
                               IN  IF d > Len(s) THEN ParseFail
                                   ELSE IF s[d] = ","
                                   THEN ParseMembers(s, SkipWs(s, d + 1), acc2)
                                   ELSE IF s[d] = "}"
                                   THEN ParseOk(Obj(acc2), d + 1)
                                   ELSE ParseFail

ParseElements(s, i, acc) ==
    LET val == ParseValue(s, i)
    IN  IF ~val.ok THEN ParseFail
        ELSE LET d == SkipWs(s, val.next)
                 acc2 == Append(acc, val.val)
             IN  IF d > Len(s) THEN ParseFail
                 ELSE IF s[d] = "," THEN ParseElements(s, d + 1, acc2)
                 ELSE IF s[d] = "]" THEN ParseOk(Arr(acc2), d + 1)
                 ELSE ParseFail

\* JSON.parse(s): [ok |-> FALSE] stands for the SyntaxError.
JSONparse(s) ==
    LET r == ParseValue(s, 1)
    IN  IF r.ok /\ SkipWs(s, r.next) = Len(s) + 1
        THEN [ok |-> TRUE, val |-> r.val]
        ELSE [ok |-> FALSE, val |-> Undefined]

(***************************************************************************)
(* fullText.match(/FENCE(?:json)?\s*([\s\S]*?)\s*FENCE/i), where FENCE      *)
(* stands for the three backquotes of the pattern.                         *)
(* The leftmost opening fence from which the whole pattern can match;      *)
(* the optional tag and the whitespace after it are greedy (the longer     *)
(* choice is tried first and given back only when the rest cannot match),  *)
(* the group is lazy: it ends at the first position from which \s*FENCE    *)
(* matches.                                                                *)
(***************************************************************************)
\* One backquote.  The TLA+ lexer cannot read a backquote inside a string, so
\* this one character of the alphabet is written by its name.
BQ == "BQ"
Fence == <<BQ, BQ, BQ>>
JsonTag == <<"j","s","o","n">>

\* Case folding of the letters of the tag (the i flag).
Lower(c) ==
    CASE c = "J" -> "j" [] c = "S" -> "s" [] c = "O" -> "o" [] c = "N" -> "n"
      [] OTHER -> c

TagAtCaseSensitive(s, i) == MatchAt(s, i, JsonTag)

\* "json" in any case at position i
TagAt(s, i) ==
    /\ i + Len(JsonTag) - 1 <= Len(s)
    /\ \A k \in 1..Len(JsonTag) : Lower(s[i + k - 1]) = JsonTag[k]

ClosesAtOrEnd(s, p) ==
    \E w \in 0..Run(s, p, WsChars) :
        MatchAt(s, p + w, Fence) \/ p + w = Len(s) + 1

\* \s*FENCE matches at position p
ClosesAt(s, p) == \E w \in 0..Run(s, p, WsChars) : MatchAt(s, p + w, Fence)

\* The ways the pattern can match with its opening fence at i: the length t
\* of the tag and the amount w of whitespace consumed before the group.
JsonAttempts(s, i) ==
    LET tags == IF TagAt(s, i + 3) THEN {0, Len(JsonTag)} ELSE {0}
        ways == UNION {{<<t, w>> : w \in 0..Run(s, i + 3 + t, WsChars)} : t \in tags}
    IN  {c \in ways : \E e \in (i + 3 + c[1] + c[2])..(Len(s) + 1) : ClosesAt(s, e)}

JsonMatchLabelled(s) ==
    LET opens == {i \in Occurrences(s, Fence) :
                    TagAt(s, i + 3) /\ JsonAttempts(s, i) # {}}
    IN  IF opens = {} THEN [matched |-> FALSE, g1 |-> Empty]
        ELSE LET i == Min(opens)
                 A == JsonAttempts(s, i)
                 c == CHOOSE x \in A : \A y \in A :
                          x[1] > y[1] \/ (x[1] = y[1] /\ x[2] >= y[2])
                 start == i + 3 + c[1] + c[2]
                 e == Min({q \in start..(Len(s) + 1) : ClosesAt(s, q)})
             IN  [matched |-> TRUE, g1 |-> SubSeq(s, start, e - 1)]

JsonMatch(s) ==
    LET opens == {i \in Occurrences(s, Fence) : JsonAttempts(s, i) # {}}
    IN  IF opens = {} THEN [matched |-> FALSE, g1 |-> Empty]
        ELSE LET i == Min(opens)
                 A == JsonAttempts(s, i)
                 c == CHOOSE x \in A : \A y \in A :
                          x[1] > y[1] \/ (x[1] = y[1] /\ x[2] >= y[2])
                 start == i + 3 + c[1] + c[2]
                 e == Min({q \in start..(Len(s) + 1) : ClosesAt(s, q)})
             IN  [matched |-> TRUE, g1 |-> SubSeq(s, start, e - 1)]

(***************************************************************************)
(* The end of analyzeVideoAndCreateRevivalPlan, lines 113-147, run on the  *)
(* accumulated buffer once the stream is exhausted.                        *)
(***************************************************************************)
NoBlockMsg == <<"F","a","i","l","e","d"," ","t","o"," ","p","a","r","s","e"," ","J","S","O","N"," ","r","e","s","p","o","n","s","e"," ","f","r","o","m"," ","m","o","d","e","l"," ","o","u","t","p","u","t","."," ","T","h","e"," ","m","o","d","e","l"," ","d","i","d"," ","n","o","t"," ","r","e","t","u","r","n"," ","a"," ","v","a","l","i","d"," ","J","S","O","N"," ","b","l","o","c","k",".">>
ParseErrorMsg == <<"F","a","i","l","e","d"," ","t","o"," ","p","a","r","s","e"," ","t","h","e"," ","J","S","O","N"," ","r","e","t","u","r","n","e","d"," ","b","y"," ","t","h","e"," ","A","I",".">>
\* The TypeError texts of the engine (V8): a property read on null, and a
\* property write on a primitive in strict (module) code.
ReadOfNullMsg == <<"C","a","n","n","o","t"," ","r","e","a","d"," ","p","r","o","p","e","r","t","i","e","s"," ","o","f"," ","n","u","l","l"," ","(","r","e","a","d","i","n","g"," ","'","R","e","v","i","v","a","l","S","t","r","a","t","e","g","y","'",")">>
WriteOnPrimitiveMsg == <<"C","a","n","n","o","t"," ","c","r","e","a","t","e"," ","p","r","o","p","e","r","t","y"," ","'","o","r","i","g","i","n","a","l","V","i","d","e","o","M","e","t","a","d","a","t","a","'"," ","o","n"," ","p","r","i","m","i","t","i","v","e">>

K_RevivalStrategy == <<"R","e","v","i","v","a","l","S","t","r","a","t","e","g","y">>
K_revivalStrategy == <<"r","e","v","i","v","a","l","S","t","r","a","t","e","g","y">>
K_originalVideoMetadata == <<"o","r","i","g","i","n","a","l","V","i","d","e","o","M","e","t","a","d","a","t","a">>
K_title == <<"t","i","t","l","e">>
K_publishDate == <<"p","u","b","l","i","s","h","D","a","t","e">>
K_currentViews == <<"c","u","r","r","e","n","t","V","i","e","w","s">>

\* lines 140-144
DefaultMetadata ==
    Obj((K_title :> Str(<<"U","n","k","n","o","w","n"," ","T","i","t","l","e">>))
        @@ (K_publishDate :> Str(<<"U","n","k","n","o","w","n"," ","D","a","t","e">>))
        @@ (K_currentViews :> Num(0)))

\* How the promise of the call settles.
Return(x) == [kind |-> "value", val |-> x, msg |-> Empty]
Throw(m) == [kind |-> "error", val |-> Undefined, msg |-> m]
\* The history variable result: the settlement r and the place it came from.
Settled(r, at) == [kind |-> r.kind, val |-> r.val, msg |-> r.msg, at |-> at]
Unsettled(k) == [kind |-> k, val |-> Undefined, msg |-> Empty, at |-> "none"]

UnwrapUpperOnly(parsedData) ==
    IF Truthy(GetProp(parsedData, K_RevivalStrategy))
    THEN GetProp(parsedData, K_RevivalStrategy)
    ELSE parsedData

\* lines 133-135, for a parsedData that is not null
Unwrap(parsedData) ==
    IF Truthy(GetProp(parsedData, K_RevivalStrategy))
    THEN GetProp(parsedData, K_RevivalStrategy)
    ELSE IF Truthy(GetProp(parsedData, K_revivalStrategy))
    THEN GetProp(parsedData, K_revivalStrategy)
    ELSE parsedData

RepairKeepsNothing(strategy) ==
    IF ~Truthy(GetProp(strategy, K_originalVideoMetadata))
    THEN IF IsPrimitive(strategy) THEN Throw(WriteOnPrimitiveMsg)
         ELSE Return(Obj(K_originalVideoMetadata :> DefaultMetadata))
    ELSE Return(strategy)

\* lines 138-147
Repair(strategy) ==
    IF ~Truthy(GetProp(strategy, K_originalVideoMetadata))
    THEN IF IsPrimitive(strategy) THEN Throw(WriteOnPrimitiveMsg)
         ELSE Return(SetProp(strategy, K_originalVideoMetadata, DefaultMetadata))
    ELSE Return(strategy)

FinalizePartialOnParseError(text) ==
    LET jsonMatch == JsonMatch(text)
    IN  IF ~jsonMatch.matched THEN Throw(NoBlockMsg)
        ELSE LET parsed == JSONparse(jsonMatch.g1)
             IN  IF ~parsed.ok THEN Return(Obj(EmptyFn))
                 ELSE IF IsNullish(parsed.val) THEN Throw(ReadOfNullMsg)
                 ELSE Repair(Unwrap(parsed.val))

\* lines 113-147; the catch of lines 149-152 rethrows what was thrown.
Finalize(text) ==
    LET jsonMatch == JsonMatch(text)
    IN  IF ~jsonMatch.matched THEN Throw(NoBlockMsg)
        ELSE LET parsed == JSONparse(jsonMatch.g1)
             IN  IF ~parsed.ok THEN Throw(ParseErrorMsg)
                 ELSE IF IsNullish(parsed.val) THEN Throw(ReadOfNullMsg)
                 ELSE Repair(Unwrap(parsed.val))

(***************************************************************************)
(* The App component, src/App.tsx.                                         *)
(***************************************************************************)
AppStates == {"IDLE", "PROCESSING_VIDEO", "ANALYZING_CONTENT", "COMPLETE", "ERROR"}

\* The links the user types: none, a link with an 11-character video id,
\* a link without one.
NoLink == ""
WatchLink == "https://www.youtube.com/watch?v=dQw4w9WgXcQ"
OtherLink == "https://example.com/clip"
Links == {NoLink, WatchLink, OtherLink}

\* getYoutubeVideoId on the links above.
GetYoutubeVideoId(url) == IF url = WatchLink THEN "dQw4w9WgXcQ" ELSE "null"

ApiKeyMsg == <<"A","P","I"," ","K","e","y"," ","n","o","t"," ","f","o","u","n","d">>
FallbackMsg == <<"A","n"," ","u","n","e","x","p","e","c","t","e","d"," ","e","r","r","o","r"," ","o","c","c","u","r","r","e","d"," ","d","u","r","i","n","g"," ","a","n","a","l","y","s","i","s",".">>
\* Messages of the errors the provider raises; the empty text stands for an
\* error without a message.
ForbiddenMsg == <<"4","0","3"," ","F","o","r","b","i","d","d","e","n">>
DeniedMsg == <<"P","E","R","M","I","S","S","I","O","N","_","D","E","N","I","E","D">>
PermissionMsg == <<"p","e","r","m","i","s","s","i","o","n"," ","d","e","n","i","e","d">>
NetworkMsg == <<"f","e","t","c","h"," ","f","a","i","l","e","d">>
ProviderErrors == {ForbiddenMsg, DeniedMsg, PermissionMsg, NetworkMsg, Empty}

IsPermissionErrorLowercaseOnly(msg) ==
    Includes(msg, <<"p","e","r","m","i","s","s","i","o","n">>)

\* line 93 of App.tsx
IsPermissionError(msg) ==
    \/ Includes(msg, <<"4","0","3">>)
    \/ Includes(msg, <<"p","e","r","m","i","s","s","i","o","n">>)
    \/ Includes(msg, DeniedMsg)

\* line 232-247: what main renders.
KeyScreenShown == ~hasApiKey
IdleShown == hasApiKey /\ appState = "IDLE"
ErrorShown == hasApiKey /\ appState = "ERROR"
DashboardShown ==
    hasApiKey /\ appState = "COMPLETE" /\ Truthy(revivalStrategy)

(***************************************************************************)
(* What AnalysisDashboard renders of its props,                            *)
(* src/components/AnalysisDashboard.tsx lines 56-85, 170-171 and 233-248.  *)
(***************************************************************************)
K_segments == <<"s","e","g","m","e","n","t","s">>
K_outdatedItems == <<"o","u","t","d","a","t","e","d","I","t","e","m","s">>
K_affectedSegmentIndices == <<"a","f","f","e","c","t","e","d","S","e","g","m","e","n","t","I","n","d","i","c","e","s">>
K_startTime == <<"s","t","a","r","t","T","i","m","e">>
K_summary == <<"s","u","m","m","a","r","y">>

\* a || b
OrElse(a, b) == IF Truthy(a) THEN a ELSE b

NaN == [t |-> "nan"]

\* timeStr.split(":")
RECURSIVE SplitColon(_)
SplitColon(s) ==
    LET c == IndexOf(s, <<":">>)
    IN  IF c = 0 THEN <<s>>
        ELSE <<SubSeq(s, 1, c - 1)>> \o SplitColon(From(s, c + 1))

\* Number(text), for the parts of a time the model writes: digits, nothing,
\* or a text with a unit letter.
ToNumber(text) ==
    CASE text = Empty -> Num(0)
      [] text # Empty /\ (\A k \in 1..Len(text) : text[k] \in DigitChars) ->
            Num(Decimal(text))
      [] \E k \in 1..Len(text) : text[k] \in {"s", "m", "h"} -> NaN

\* lines 58-64: the seconds of "h:mm:ss" or "m:ss", 0 for any other form.
Seconds(timeStr) ==
    LET parts == SplitColon(timeStr)
        n == [k \in 1..Len(parts) |-> ToNumber(parts[k])]
    IN  IF Len(parts) \notin {2, 3} THEN Num(0)
        ELSE IF \E k \in 1..Len(parts) : n[k].t = "nan" THEN NaN
        ELSE IF Len(parts) = 3
        THEN Num(n[1].v * 3600 + n[2].v * 60 + n[3].v)
        ELSE Num(n[1].v * 60 + n[2].v)

\* youtubeUrl.split("&")[0]; no link of the model holds an ampersand.
CleanUrl(url) == CASE url \in {NoLink, WatchLink, OtherLink} -> url

\* getTimestampLink, lines 56-67: the url and the value of its t parameter
\* (undefined for the url as typed).  A time that is truthy and no string
\* has no split method (RenderThrows).
GetTimestampLink(timeStr, youtubeUrl) ==
    IF ~Truthy(timeStr) THEN [url |-> youtubeUrl, t |-> Undefined]
    ELSE [url |-> CleanUrl(youtubeUrl), t |-> Seconds(timeStr.v)]

ElementAtFromEnd(xs, idx) ==
    CASE xs.t = "arr" /\ idx.t = "num" ->
            IF idx.v >= 0 /\ idx.v < Len(xs.v) THEN xs.v[idx.v + 1]
            ELSE IF idx.v < 0 /\ 0 - idx.v <= Len(xs.v)
            THEN xs.v[Len(xs.v) + idx.v + 1]
            ELSE Undefined

\* segments[segIdx] for an array and a number: the element at an index of
\* the array, undefined for every other number.
ElementAt(xs, idx) ==
    CASE xs.t = "arr" /\ idx.t = "num" ->
            IF idx.v >= 0 /\ idx.v < Len(xs.v) THEN xs.v[idx.v + 1]
            ELSE Undefined

\* item.affectedSegmentIndices || []
IndicesOf(item) == OrElse(GetProp(item, K_affectedSegmentIndices), Arr(Empty))

\* Rendering the row of an item throws a TypeError: the item is null, its
\* index list is no array (no map method), or the time of a segment it
\* names is no string.
ItemThrows(item, segments) ==
    IF IsNullish(item) THEN TRUE
    ELSE IF IndicesOf(item).t # "arr" THEN TRUE
    ELSE \E j \in 1..Len(IndicesOf(item).v) :
            LET segment == ElementAt(segments, IndicesOf(item).v[j])
            IN  /\ Truthy(segment)
                /\ Truthy(GetProp(segment, K_startTime))
                /\ GetProp(segment, K_startTime).t # "str"

\* The links of the row of an item, lines 233-248: one for each entry of the
\* list at which segments holds a truthy value, in the order of the list.
ItemLinks(item, segments, youtubeUrl) ==
    LET rendered == SelectSeq(IndicesOf(item).v,
                              LAMBDA segIdx : Truthy(ElementAt(segments, segIdx)))
    IN  [k \in 1..Len(rendered) |->
            LET segment == ElementAt(segments, rendered[k])
            IN  [key |-> rendered[k],
                 href |-> GetTimestampLink(GetProp(segment, K_startTime), youtubeUrl),
                 text |-> GetProp(segment, K_startTime),
                 title |-> GetProp(segment, K_summary)]]

\* lines 84-85
ItemsOf(strategy) == OrElse(GetProp(strategy, K_outdatedItems), Arr(Empty))
SegmentsOf(strategy) == OrElse(GetProp(strategy, K_segments), Arr(Empty))

RenderThrows(strategy) ==
    IF ItemsOf(strategy).t # "arr" THEN TRUE
    ELSE \E k \in 1..Len(ItemsOf(strategy).v) :
            ItemThrows(ItemsOf(strategy).v[k], SegmentsOf(strategy))

\* line 170: new Set(outdatedItems.flatMap(i => i.affectedSegmentIndices || [])).size
SegmentsImpacted(strategy) ==
    Cardinality(UNION { {IndicesOf(ItemsOf(strategy).v[k]).v[j] :
                            j \in 1..Len(IndicesOf(ItemsOf(strategy).v[k]).v)} :
                        k \in 1..Len(ItemsOf(strategy).v) })

NoView ==
    [mounted |-> FALSE, crashed |-> FALSE, links |-> << >>, impacted |-> 0,
     total |-> 0]

\* The render of the dashboard: the links of each row, the figure of line
\* 170 and its denominator of line 171.  An exception thrown while rendering
\* takes the page down.
Render(strategy, youtubeUrl) ==
    IF RenderThrows(strategy)
    THEN [NoView EXCEPT !.mounted = TRUE, !.crashed = TRUE]
    ELSE [mounted |-> TRUE,
          crashed |-> FALSE,
          links |-> [k \in 1..Len(ItemsOf(strategy).v) |->
                        ItemLinks(ItemsOf(strategy).v[k], SegmentsOf(strategy),
                                  youtubeUrl)],
          impacted |-> SegmentsImpacted(strategy),
          total |-> Max({1, Len(SegmentsOf(strategy).v)})]

\* The latest step was no continuation of an overlay call.
NoResponse == [candidates |-> FALSE, list |-> <<"none">>]
NoOverlaySettled ==
    [kind |-> "none", val |-> Undefined, msg |-> Empty, response |-> NoResponse]

\* The dashboard on display has started no overlay call.
NoRequest == [kind |-> "none", val |-> Undefined]

\* No dashboard is mounted.
Unmounted ==
    /\ generatedImage = Null
    /\ isGeneratingImage = FALSE
    /\ overlays = << >>
    /\ alerted = Empty
    /\ settled = NoOverlaySettled
    /\ view = NoView
    /\ latest = NoRequest

\* What React does to the dashboard after a handler has run, App.tsx lines
\* 238-246: the component stays mounted, with the state img, busy that the
\* handler left, while it is displayed before and after; it is unmounted, or
\* mounted anew with the initial state of lines 17-18, otherwise.  The
\* calls a component made outlive it: they are no longer live.  What is
\* rendered depends on the props alone.
DashboardFollowsWith(img, busy, calling, last) ==
    /\ IF DashboardShown /\ DashboardShown'
       THEN /\ generatedImage' = img
            /\ isGeneratingImage' = busy
            /\ overlays' = calling
            /\ latest' = last
       ELSE /\ generatedImage' = Null
            /\ isGeneratingImage' = FALSE
            /\ overlays' = [k \in DOMAIN calling |->
                                [calling[k] EXCEPT !.live = FALSE]]
            /\ latest' = NoRequest
    /\ view' = IF ~DashboardShown' THEN NoView
               ELSE IF /\ DashboardShown
                       /\ revivalStrategy' = revivalStrategy
                       /\ youtubeLink' = youtubeLink
               THEN view
               ELSE Render(revivalStrategy', youtubeLink')

\* The same after a handler of App, which touches no state of the dashboard.
DashboardFollows ==
    /\ DashboardFollowsWith(generatedImage, isGeneratingImage, overlays, latest)
    /\ alerted' = alerted
    /\ settled' = NoOverlaySettled

\* The catch of handleStartAnalysis, lines 85-96, on the rejection r.
Catch(r, at) ==
    LET msg == IF r.msg # Empty THEN r.msg ELSE FallbackMsg
    IN  /\ errorMsg' = Str(msg)
        /\ appState' = "ERROR"
        /\ hasApiKey' = (IF IsPermissionError(msg) THEN FALSE ELSE hasApiKey)
        /\ pc' = "none"
        /\ result' = Settled(r, at)
        /\ UNCHANGED <<youtubeLink, revivalStrategy>>

\* Lines 71-80 and geminiService.ts lines 46-92: the frames are stored, the
\* console is shown and the analysis call starts; without an API key it
\* rejects at once, else it waits for the stream to open.  (errorMsg was
\* set to null on line 51.)
EnterAnalysis(contextFrames) ==
    /\ frames' = contextFrames
    /\ IF envApiKey
       THEN /\ appState' = "ANALYZING_CONTENT"
            /\ errorMsg' = Null
            /\ pc' = "opening"
            /\ result' = Unsettled("pending")
            /\ UNCHANGED <<hasApiKey, youtubeLink, revivalStrategy>>
       ELSE Catch(Throw(ApiKeyMsg), "key")

\* The mount effect, lines 19-30.
CheckApiKey ==
    /\ keyCheck = "pending"
    /\ keyCheck' = "done"
    /\ IF aistudio
       THEN \E outcome \in {"true", "false", "rejects"} :
                hasApiKey' = (CASE outcome = "true" -> TRUE
                                [] outcome = "false" -> FALSE
                                [] OTHER -> hasApiKey)
       ELSE hasApiKey' = TRUE
    /\ UNCHANGED <<appState, youtubeLink, frames, revivalStrategy, errorMsg,
                   thinkingLog, selectPending, pc, result, attempts>>
    /\ UNCHANGED <<hostVars, streamVars>>
    /\ DashboardFollows

\* handleSelectKey, lines 32-35, up to its await.
HandleSelectKey ==
    /\ IF aistudio
       THEN selectPending < MaxSelecting /\ selectPending' = selectPending + 1
       ELSE selectPending' = selectPending
    /\ UNCHANGED <<hasApiKey, appState, youtubeLink, frames, revivalStrategy,
                   errorMsg, thinkingLog, keyCheck, pc, result, attempts>>
    /\ UNCHANGED <<hostVars, streamVars>>
    /\ DashboardFollows

\* The button of the key-selection screen, line 116.
ClickSelectKey == KeyScreenShown /\ HandleSelectKey

\* handleSelectKey after its await, lines 36-42.
SelectKeySettles ==
    /\ selectPending > 0
    /\ selectPending' = selectPending - 1
    /\ \E resolved \in BOOLEAN : hasApiKey' = resolved
    /\ UNCHANGED <<appState, youtubeLink, frames, revivalStrategy, errorMsg,
                   thinkingLog, keyCheck, pc, result, attempts>>
    /\ UNCHANGED <<hostVars, streamVars>>
    /\ DashboardFollows

\* The input of the idle screen, line 155.
SetYoutubeLink(link) ==
    /\ IdleShown
    /\ link # youtubeLink
    /\ youtubeLink' = link
    /\ UNCHANGED <<hasApiKey, appState, frames, revivalStrategy, errorMsg,
                   thinkingLog, keyCheck, selectPending, pc, result, attempts>>
    /\ UNCHANGED <<hostVars, streamVars>>
    /\ DashboardFollows

\* handleStartAnalysis, lines 46-69, up to its first await.  The button is
\* on the idle screen and is disabled without a link; no earlier call is
\* pending whenever the idle screen is shown (NoCallWhileIdle).
HandleStartAnalysis ==
    /\ IdleShown
    /\ youtubeLink # NoLink
    /\ pc = "none"
    /\ attempts < MaxAttempts
    /\ attempts' = attempts + 1
    /\ thinkingLog' = Empty
    /\ IF GetYoutubeVideoId(youtubeLink) # "null"
       THEN /\ appState' = "PROCESSING_VIDEO"
            /\ errorMsg' = Null
            /\ pc' = "thumbnail"
            /\ result' = Unsettled("pending")
            /\ UNCHANGED <<hasApiKey, youtubeLink, frames, revivalStrategy>>
       ELSE EnterAnalysis(<<"placeholder">>)
    /\ UNCHANGED <<keyCheck, selectPending>>
    /\ UNCHANGED <<hostVars, streamVars>>
    /\ DashboardFollows

\* getYoutubeThumbnail settles (it never rejects), lines 60-80.
ThumbnailSettles ==
    /\ pc = "thumbnail"
    /\ \E thumbnail \in {"thumbnail", "null"} :
           EnterAnalysis(IF thumbnail # "null" THEN <<"thumbnail">>
                         ELSE <<"placeholder">>)
    /\ UNCHANGED <<thinkingLog, keyCheck, selectPending, attempts>>
    /\ UNCHANGED <<hostVars, streamVars>>
    /\ DashboardFollows

\* generateContentStream resolves, geminiService.ts lines 86-95.
StreamOpens ==
    /\ pc = "opening"
    /\ pc' = "streaming"
    /\ fullText' = Empty
    /\ thinkingText' = Empty
    /\ calls' = << >>
    /\ nChunks' = 0
    /\ UNCHANGED <<hasApiKey, appState, youtubeLink, frames, revivalStrategy,
                   errorMsg, thinkingLog, keyCheck, selectPending, result,
                   attempts>>
    /\ UNCHANGED hostVars
    /\ DashboardFollows

StreamFailsAsParseError(msg) ==
    /\ pc \in {"opening", "streaming"}
    /\ Catch(Throw(ParseErrorMsg), IF pc = "opening" THEN "open" ELSE "stream")
    /\ UNCHANGED <<frames, thinkingLog, keyCheck, selectPending, attempts>>
    /\ UNCHANGED <<hostVars, streamVars>>
    /\ DashboardFollows

\* generateContentStream rejects, or the iteration of the stream throws:
\* lines 149-152, then the catch of the caller.
StreamFails(msg) ==
    /\ pc \in {"opening", "streaming"}
    /\ Catch(Throw(msg), IF pc = "opening" THEN "open" ELSE "stream")
    /\ UNCHANGED <<frames, thinkingLog, keyCheck, selectPending, attempts>>
    /\ UNCHANGED <<hostVars, streamVars>>
    /\ DashboardFollows

StreamChunkScansChunk(text) ==
    /\ pc = "streaming"
    /\ LET full == IF text # Empty THEN fullText \o text ELSE fullText
           scan == ScanThinking(text, thinkingText)
       IN  /\ fullText' = full
           /\ thinkingText' = scan.thinkingText
           /\ IF scan.emit
              THEN /\ thinkingLog' = scan.thinkingText
                   /\ calls' = Append(calls, [buf |-> full, arg |-> scan.thinkingText])
              ELSE UNCHANGED <<thinkingLog, calls>>
    /\ nChunks' = nChunks + 1
    /\ UNCHANGED <<hasApiKey, appState, youtubeLink, frames, revivalStrategy,
                   errorMsg, keyCheck, selectPending, pc, result, attempts>>
    /\ UNCHANGED hostVars
    /\ DashboardFollows

\* One iteration of the loop, lines 97-111, on a chunk whose text is text
\* (empty for a chunk without text); onThinking is setThinkingLog.
StreamChunk(text) ==
    /\ pc = "streaming"
    /\ LET full == IF text # Empty THEN fullText \o text ELSE fullText
           scan == ScanThinking(full, thinkingText)
       IN  /\ fullText' = full
           /\ thinkingText' = scan.thinkingText
           /\ IF scan.emit
              THEN /\ thinkingLog' = scan.thinkingText
                   /\ calls' = Append(calls, [buf |-> full, arg |-> scan.thinkingText])
              ELSE UNCHANGED <<thinkingLog, calls>>
    /\ nChunks' = nChunks + 1
    /\ UNCHANGED <<hasApiKey, appState, youtubeLink, frames, revivalStrategy,
                   errorMsg, keyCheck, selectPending, pc, result, attempts>>
    /\ UNCHANGED hostVars
    /\ DashboardFollows

StreamExhaustedKeepsStrategy ==
    /\ pc = "streaming"
    /\ LET r == Finalize(fullText)
       IN  IF r.kind = "value"
           THEN /\ revivalStrategy' = (IF revivalStrategy = Null THEN r.val
                                       ELSE revivalStrategy)
                /\ appState' = "COMPLETE"
                /\ pc' = "none"
                /\ result' = Settled(r, "finalize")
                /\ UNCHANGED <<hasApiKey, youtubeLink, errorMsg, thinkingLog>>
           ELSE Catch(r, "finalize") /\ UNCHANGED thinkingLog
    /\ UNCHANGED <<frames, keyCheck, selectPending, attempts>>
    /\ UNCHANGED <<hostVars, streamVars>>
    /\ DashboardFollows

\* The stream is exhausted: lines 113-153, then lines 82-83 or the catch of
\* the caller.
StreamExhausted ==
    /\ pc = "streaming"
    /\ LET r == Finalize(fullText)
       IN  IF r.kind = "value"
           THEN /\ revivalStrategy' = r.val
                /\ appState' = "COMPLETE"
                /\ pc' = "none"
                /\ result' = Settled(r, "finalize")
                /\ UNCHANGED <<hasApiKey, youtubeLink, errorMsg, thinkingLog>>
           ELSE Catch(r, "finalize") /\ UNCHANGED thinkingLog
    /\ UNCHANGED <<frames, keyCheck, selectPending, attempts>>
    /\ UNCHANGED <<hostVars, streamVars>>
    /\ DashboardFollows

\* The label of the button of the error screen, line 206.
ErrorButtonLabel ==
    IF Includes(errorMsg.v, <<"p","e","r","m","i","s","s","i","o","n">>)
    THEN "Select Valid API Key" ELSE "Try Again"

\* The button of the error screen, lines 196-207.
ClickErrorButton ==
    /\ ErrorShown
    /\ IF Includes(errorMsg.v, <<"p","e","r","m","i","s","s","i","o","n">>)
       THEN HandleSelectKey
       ELSE /\ appState' = "IDLE"
            /\ UNCHANGED <<hasApiKey, youtubeLink, frames, revivalStrategy,
                           errorMsg, thinkingLog, keyCheck, selectPending, pc,
                           result, attempts>>
            /\ UNCHANGED <<hostVars, streamVars>>
            /\ DashboardFollows

\* "New Analysis" in the navbar, lines 220-227.
ClickNewAnalysis ==
    /\ appState = "COMPLETE"
    /\ appState' = "IDLE"
    /\ UNCHANGED <<hasApiKey, youtubeLink, frames, revivalStrategy, errorMsg,
                   thinkingLog, keyCheck, selectPending, pc, result, attempts>>
    /\ UNCHANGED <<hostVars, streamVars>>
    /\ DashboardFollows

(***************************************************************************)
(* generateVisualOverlay, src/services/geminiService.ts lines 155-197, and *)
(* handleGenerateOverlay, src/components/AnalysisDashboard.tsx lines 26-54.*)
(***************************************************************************)
K_candidates == <<"c","a","n","d","i","d","a","t","e","s">>
K_content == <<"c","o","n","t","e","n","t">>
K_parts == <<"p","a","r","t","s">>
K_inlineData == <<"i","n","l","i","n","e","D","a","t","a">>
K_mimeType == <<"m","i","m","e","T","y","p","e">>
K_data == <<"d","a","t","a">>
K_text == <<"t","e","x","t">>

NoImageMsg == <<"N","o"," ","i","m","a","g","e"," ","g","e","n","e","r","a","t","e","d">>
StartsWithOfUndefinedMsg == <<"C","a","n","n","o","t"," ","r","e","a","d"," ","p","r","o","p","e","r","t","i","e","s"," ","o","f"," ","u","n","d","e","f","i","n","e","d"," ","(","r","e","a","d","i","n","g"," ","'","s","t","a","r","t","s","W","i","t","h","'",")">>
NoFramesMsg == <<"N","o"," ","v","i","d","e","o"," ","f","r","a","m","e","s"," ","a","v","a","i","l","a","b","l","e"," ","t","o"," ","g","e","n","e","r","a","t","e"," ","o","v","e","r","l","a","y",".">>
OverlayFailedMsg == <<"F","a","i","l","e","d"," ","t","o"," ","g","e","n","e","r","a","t","e"," ","o","v","e","r","l","a","y","."," ","P","l","e","a","s","e"," ","t","r","y"," ","a","g","a","i","n",".">>

\* x?.k and x?.[i]
OptProp(x, k) == IF IsNullish(x) THEN Undefined ELSE GetProp(x, k)
OptAt(x, i) == IF IsNullish(x) THEN Undefined ELSE ElementAt(x, Num(i))

\* part.inlineData && part.inlineData.mimeType.startsWith("image/"), line 187,
\* on a part that is an object: "yes", "no", or "throws" when the inline
\* data carries no mime type.
IsImagePart(part) ==
    LET inlineData == GetProp(part, K_inlineData)
    IN  IF ~Truthy(inlineData) THEN "no"
        ELSE IF GetProp(inlineData, K_mimeType).t # "str" THEN "throws"
        ELSE IF IsPrefix(<<"i","m","a","g","e","/">>,
                         GetProp(inlineData, K_mimeType).v)
        THEN "yes" ELSE "no"

\* The template of line 188 on an inline data whose fields are strings.
DataUrl(inlineData) ==
    <<"d","a","t","a",":">> \o GetProp(inlineData, K_mimeType).v
        \o <<";","b","a","s","e","6","4",",">> \o GetProp(inlineData, K_data).v

\* The loop of lines 186-190 from part i on, then line 192.
RECURSIVE FirstImageFrom(_, _)
FirstImageFrom(parts, i) ==
    IF i > Len(parts) THEN Throw(NoImageMsg)
    ELSE LET is == IsImagePart(parts[i])
         IN  IF is = "throws" THEN Throw(StartsWithOfUndefinedMsg)
             ELSE IF is = "yes"
             THEN Return(Str(DataUrl(GetProp(parts[i], K_inlineData))))
             ELSE FirstImageFrom(parts, i + 1)

\* Lines 184-196 on the response of the provider: what the call settles
\* with.
OverlayOf(response) ==
    LET parts == OptProp(OptProp(OptAt(GetProp(response, K_candidates), 0),
                                 K_content), K_parts)
    IN  IF Truthy(parts) THEN FirstImageFrom(parts.v, 1)
        ELSE Throw(NoImageMsg)

\* e.message || JSON.stringify(e), line 44, for an Error: an Error has no
\* enumerable field.
ErrMsg(e) == IF e.msg # Empty THEN e.msg ELSE <<"{", "}">>

ClickVisualizeOneAtATime(k) ==
    /\ DashboardShown
    /\ ~isGeneratingImage
    /\ ~view.crashed
    /\ k \in 1..Len(ItemsOf(revivalStrategy).v)
    /\ Len(overlays) < MaxOverlays
    /\ generatedImage' = Null
    /\ IF Len(frames) > 0
       THEN /\ isGeneratingImage' = TRUE
            /\ overlays' = Append(overlays,
                    [item |-> k,
                     frame |-> frames[Min({Len(frames) - 1, Len(frames) \div 2}) + 1],
                     live |-> TRUE])
            /\ alerted' = alerted
            /\ latest' = [kind |-> "pending", val |-> Undefined]
       ELSE /\ isGeneratingImage' = FALSE
            /\ overlays' = overlays
            /\ alerted' = NoFramesMsg
            /\ latest' = latest
    /\ settled' = NoOverlaySettled
    /\ UNCHANGED <<hasApiKey, appState, youtubeLink, frames, revivalStrategy,
                   errorMsg, thinkingLog, keyCheck, selectPending, pc, result,
                   attempts, view>>
    /\ UNCHANGED <<hostVars, streamVars>>

\* handleGenerateOverlay(item) up to its await, lines 26-39, for the item
\* of row k.  Without a frame it alerts and ends in its finally.
ClickVisualize(k) ==
    /\ DashboardShown
    /\ ~view.crashed
    /\ k \in 1..Len(ItemsOf(revivalStrategy).v)
    /\ Len(overlays) < MaxOverlays
    /\ generatedImage' = Null
    /\ IF Len(frames) > 0
       THEN /\ isGeneratingImage' = TRUE
            /\ overlays' = Append(overlays,
                    [item |-> k,
                     frame |-> frames[Min({Len(frames) - 1, Len(frames) \div 2}) + 1],
                     live |-> TRUE])
            /\ alerted' = alerted
            /\ latest' = [kind |-> "pending", val |-> Undefined]
       ELSE /\ isGeneratingImage' = FALSE
            /\ overlays' = overlays
            /\ alerted' = NoFramesMsg
            /\ latest' = latest
    /\ settled' = NoOverlaySettled
    /\ UNCHANGED <<hasApiKey, appState, youtubeLink, frames, revivalStrategy,
                   errorMsg, thinkingLog, keyCheck, selectPending, pc, result,
                   attempts, view>>
    /\ UNCHANGED <<hostVars, streamVars>>

OverlaySettlesResetsReport(k, r, response) ==
    /\ k \in DOMAIN overlays
    /\ LET live == overlays[k].live
           calling == SubSeq(overlays, 1, k - 1)
                          \o SubSeq(overlays, k + 1, Len(overlays))
           img == IF live /\ r.kind = "value" THEN r.val ELSE generatedImage
           busy == IF live THEN FALSE ELSE isGeneratingImage
           last == IF k = Len(overlays) /\ latest.kind = "pending"
                   THEN [kind |-> r.kind, val |-> r.val] ELSE latest
           denied == r.kind = "error" /\ IsPermissionError(ErrMsg(r))
       IN  /\ hasApiKey' = (IF denied THEN FALSE ELSE hasApiKey)
           /\ alerted' = (IF r.kind = "error" /\ ~denied
                          THEN OverlayFailedMsg ELSE alerted)
           /\ settled' = [kind |-> r.kind, val |-> r.val, msg |-> r.msg,
                          response |-> response]
           /\ appState' = (IF r.kind = "error" THEN "IDLE" ELSE appState)
           /\ UNCHANGED <<youtubeLink, frames, revivalStrategy,
                          errorMsg, thinkingLog, keyCheck, selectPending, pc,
                          result, attempts>>
           /\ UNCHANGED <<hostVars, streamVars>>
           /\ DashboardFollowsWith(img, busy, calling, last)

\* handleGenerateOverlay after its await, lines 40-53, when call k settles
\* with r (on a response of the shape given, NoResponse for none).  The
\* setters of a component that is no longer mounted do nothing; onAuthError
\* and alert act all the same.
OverlaySettles(k, r, response) ==
    /\ k \in DOMAIN overlays
    /\ LET live == overlays[k].live
           calling == SubSeq(overlays, 1, k - 1)
                          \o SubSeq(overlays, k + 1, Len(overlays))
           img == IF live /\ r.kind = "value" THEN r.val ELSE generatedImage
           busy == IF live THEN FALSE ELSE isGeneratingImage
           last == IF k = Len(overlays) /\ latest.kind = "pending"
                   THEN [kind |-> r.kind, val |-> r.val] ELSE latest
           denied == r.kind = "error" /\ IsPermissionError(ErrMsg(r))
       IN  /\ hasApiKey' = (IF denied THEN FALSE ELSE hasApiKey)
           /\ alerted' = (IF r.kind = "error" /\ ~denied
                          THEN OverlayFailedMsg ELSE alerted)
           /\ settled' = [kind |-> r.kind, val |-> r.val, msg |-> r.msg,
                          response |-> response]
           /\ UNCHANGED <<appState, youtubeLink, frames, revivalStrategy,
                          errorMsg, thinkingLog, keyCheck, selectPending, pc,
                          result, attempts>>
           /\ UNCHANGED <<hostVars, streamVars>>
           /\ DashboardFollowsWith(img, busy, calling, last)

\* The shapes of the responses of the image model: the candidates field
\* may be absent; a candidate has no content, a content without parts, or
\* parts, each of one of PartKinds.
PartKinds == {"text", "plain", "png", "jpeg", "untyped"}
Parts(kinds) == [content |-> "parts", parts |-> kinds]
NoContent == [content |-> "absent", parts |-> << >>]
NoParts == [content |-> "partless", parts |-> << >>]
Candidates(list) == [candidates |-> TRUE, list |-> list]
NoCandidates == [candidates |-> FALSE, list |-> << >>]

PartlessShapes ==
    { NoCandidates, Candidates(<< >>), Candidates(<<NoContent>>),
      Candidates(<<NoParts>>), Candidates(<<Parts(<< >>)>>) }

\* Responses whose inline data all carry a mime type.
TypedShapes ==
    { Candidates(<<Parts(kinds)>>) :
        kinds \in { <<"text">>, <<"plain">>, <<"png">>, <<"text", "png">>,
                    <<"plain", "png">>, <<"png", "jpeg">>, <<"jpeg", "png">>,
                    <<"text", "plain">> } }
    \cup { Candidates(<<Parts(<<"text">>), Parts(<<"png">>)>>),
           Candidates(<<NoContent, Parts(<<"png">>)>>) }

\* Responses with inline data that lacks the optional mime type.
UntypedShapes ==
    { Candidates(<<Parts(kinds)>>) :
        kinds \in { <<"untyped">>, <<"untyped", "png">>, <<"png", "untyped">> } }

ResponseShapes == PartlessShapes \cup TypedShapes \cup UntypedShapes

\* The responses in SpecDashboard: an image after a text, a text alone, and
\* inline data without a mime type.
DashShapes ==
    { Candidates(<<Parts(kinds)>>) :
        kinds \in { <<"text", "png">>, <<"text">>, <<"untyped">> } }

PngMime == <<"i","m","a","g","e","/","p","n","g">>
JpegMime == <<"i","m","a","g","e","/","j","p","e","g">>
PlainMime == <<"t","e","x","t","/","p","l","a","i","n">>
InlinePart(fields) == Obj(Put(EmptyFn, K_inlineData, Obj(fields)))

\* The part of a kind in the response to the request for the item of row
\* k: the png names the row.
PartOf(kind, k) ==
    CASE kind = "text" -> Obj(Put(EmptyFn, K_text, Str(<<"t">>)))
      [] kind = "plain" ->
            InlinePart(Put(Put(EmptyFn, K_mimeType, Str(PlainMime)), K_data, Str(<<"P">>)))
      [] kind = "png" ->
            InlinePart(Put(Put(EmptyFn, K_mimeType, Str(PngMime)), K_data,
                           Str(<<Digits[k + 1]>>)))
      [] kind = "jpeg" ->
            InlinePart(Put(Put(EmptyFn, K_mimeType, Str(JpegMime)), K_data, Str(<<"J">>)))
      [] kind = "untyped" -> InlinePart(Put(EmptyFn, K_data, Str(<<"U">>)))

CandidateOf(c, k) ==
    CASE c.content = "absent" -> Obj(EmptyFn)
      [] c.content = "partless" -> Obj(Put(EmptyFn, K_content, Obj(EmptyFn)))
      [] c.content = "parts" ->
            Obj(Put(EmptyFn, K_content,
                    Obj(Put(EmptyFn, K_parts,
                            Arr([i \in 1..Len(c.parts) |-> PartOf(c.parts[i], k)])))))

\* The response object of a shape.
ResponseOf(shape, k) ==
    IF ~shape.candidates THEN Obj(EmptyFn)
    ELSE Obj(Put(EmptyFn, K_candidates,
                 Arr([i \in 1..Len(shape.list) |-> CandidateOf(shape.list[i], k)])))

\* The call reads its key on line 159 and rejects without one; else the
\* provider answers with a response of the shape given, lines 184-192.
OverlayAnswered(k, shape) ==
    /\ k \in DOMAIN overlays
    /\ IF envApiKey
       THEN OverlaySettles(k, OverlayOf(ResponseOf(shape, overlays[k].item)), shape)
       ELSE OverlaySettles(k, Throw(ApiKeyMsg), NoResponse)

\* The provider rejects, lines 193-196.
OverlayFails(k, msg) ==
    OverlaySettles(k, IF envApiKey THEN Throw(msg) ELSE Throw(ApiKeyMsg),
                   NoResponse)

(***************************************************************************)
(* The texts of the model.                                                 *)
(***************************************************************************)
Quoted(k) == <<"\"">> \o k \o <<"\"">>
Member(k, valueText) == Quoted(k) \o <<":">> \o valueText
ObjText(members) == <<"{">> \o members \o <<"}">>
Both(m1, m2) == m1 \o <<",">> \o m2

K_revivalPlan == <<"r","e","v","i","v","a","l","P","l","a","n">>
K_revivalSummary == <<"r","e","v","i","v","a","l","S","u","m","m","a","r","y">>
K_predictedViews == <<"p","r","e","d","i","c","t","e","d","V","i","e","w","s">>
K_predictedEngagement == <<"p","r","e","d","i","c","t","e","d","E","n","g","a","g","e","m","e","n","t">>

\* The fields of RevivalStrategy, src/unnamed/part_002 lines 18-34.
StrategyKeys ==
    {K_originalVideoMetadata, K_segments, K_outdatedItems, K_revivalPlan,
     K_revivalSummary, K_predictedViews, K_predictedEngagement}

NullText == <<"n","u","l","l">>
EmptyArrayText == <<"[","]">>
MetadataText == ObjText(Member(K_title, Quoted(<<"T">>)))

\* Payloads of the shape of a RevivalStrategy.
StrategyTexts ==
    { ObjText(Empty),
      ObjText(Member(K_segments, EmptyArrayText)),
      ObjText(Both(Member(K_segments, EmptyArrayText),
                   Member(K_predictedViews, <<"1","0","0">>))),
      ObjText(Both(Member(K_originalVideoMetadata, MetadataText),
                   Member(K_segments, EmptyArrayText))) }

Wrapped(k, text) == ObjText(Member(k, text))

\* Payloads whose metadata field is present with a value that is no object.
OddMetadataTexts ==
    { ObjText(Both(Member(K_originalVideoMetadata, v),
                   Member(K_segments, EmptyArrayText))) :
        v \in {NullText, <<"0">>, <<"\"", "\"">>, <<"f","a","l","s","e">>,
               <<"7">>, <<"\"","T","\"">>} }

\* Other JSON texts, and texts that are no JSON.
OtherTexts ==
    { NullText, <<"5">>, <<"0">>, <<"t","r","u","e">>, <<"\"","s","\"">>,
      EmptyArrayText, <<"[","1","]">>,
      Wrapped(K_RevivalStrategy, NullText),
      Wrapped(K_RevivalStrategy, <<"5">>),
      Wrapped(K_revivalStrategy, EmptyArrayText),
      ObjText(Both(Member(K_RevivalStrategy, ObjText(Empty)),
                   Member(K_segments, EmptyArrayText))),
      Wrapped(<<"r","e","v","i","v","a","l","s","t","r","a","t","e","g","y">>,
              ObjText(Empty)),
      Empty, <<"x">>, <<"{">>, <<"0","5">>, <<"{","}","{","}">>,
      <<"j","s","o","n","{","}">> }

PayloadTexts ==
    StrategyTexts
    \cup {Wrapped(K_RevivalStrategy, x) : x \in StrategyTexts}
    \cup {Wrapped(K_revivalStrategy, x) : x \in StrategyTexts}
    \cup OddMetadataTexts
    \cup OtherTexts

\* The labels of a block: json in some spellings, and none.
BlockTags ==
    {JsonTag, <<"J","S","O","N">>, <<"J","s","o","n">>, <<"j","s","O","n">>, Empty}
\* What separates the fence line from the payload, and the payload from
\* the closing fence.
BlockSeps == {<<"\n">>, <<" ", "\n">>}

\* A fenced block: the fence with its label, the payload on its own lines.
Block(tag, sep, payload) == Fence \o tag \o sep \o payload \o sep \o Fence

Narrative == OpenTag \o <<"a">> \o CloseTag \o <<"\n">>
Prefixes == {Empty, Narrative}

\* Buffers without a complete block.
BlocklessTexts ==
    { Empty, Narrative, ObjText(Empty),
      <<BQ, BQ>>, <<BQ, BQ, BQ, BQ>>, <<BQ, BQ, BQ, BQ, BQ>>,
      Fence \o JsonTag \o <<"\n">> \o ObjText(Empty),
      Fence \o JsonTag \o <<"\n">> \o ObjText(Empty) \o <<"\n", BQ, BQ>>,
      Narrative \o Fence \o <<"\n">> \o ObjText(Empty) \o <<BQ, " ", BQ, BQ>> }

\* Buffers with two blocks, the first one inside the thinking section or
\* after it, labelled or not; the second one is labelled json.
TwoBlockCases ==
    [ inside : BOOLEAN,
      tag : {Empty, JsonTag},
      first : {ObjText(Empty), ObjText(Member(K_segments, EmptyArrayText)),
               <<"x">>, Empty},
      second : {ObjText(Member(K_predictedViews, <<"1","0","0">>)), <<"{">>} ]

TwoBlockText(c) ==
    (IF c.inside THEN OpenTag \o <<"a", "\n">> ELSE Narrative)
    \o Block(c.tag, <<"\n">>, c.first)
    \o (IF c.inside THEN <<"\n">> \o CloseTag \o <<"\n">> ELSE <<"\n">>)
    \o Block(JsonTag, <<"\n">>, c.second)

FinalTexts ==
    {pre \o Block(tag, sep, payload) :
        pre \in Prefixes, tag \in BlockTags, sep \in BlockSeps,
        payload \in PayloadTexts}
    \cup BlocklessTexts
    \cup {TwoBlockText(c) : c \in TwoBlockCases}
    \cup {Fence \o Fence, Fence \o <<" ">> \o Fence}

\* The chunks of a stream in SpecStream: the tags, whole and cut, and text.
TagChunks ==
    { Empty, <<"a">>, OpenTag, CloseTag,
      <<"<","t","h","i">>, <<"n","k","i","n","g",">">>,
      <<"<","/","t","h","i","n">>, <<"k","i","n","g",">">> }

\* The chunks of a stream in Spec: a narrative, a block that parses to a
\* strategy, a block that does not parse.
AppChunks ==
    { Narrative,
      Block(JsonTag, <<"\n">>, ObjText(Member(K_segments, EmptyArrayText))),
      Block(JsonTag, <<"\n">>, <<"{">>) }

(***************************************************************************)
(* Spec: the application from its mount on.                                *)
(***************************************************************************)
Init ==
    /\ hasApiKey = FALSE
    /\ appState = "IDLE"
    /\ youtubeLink = NoLink
    /\ frames = << >>
    /\ revivalStrategy = Null
    /\ errorMsg = Null
    /\ thinkingLog = Empty
    /\ aistudio \in BOOLEAN
    /\ keyCheck = "pending"
    /\ selectPending = 0
    /\ envApiKey \in BOOLEAN
    /\ pc = "none"
    /\ fullText = Empty
    /\ thinkingText = Empty
    /\ calls = << >>
    /\ nChunks = 0
    /\ attempts = 0
    /\ result = Unsettled("none")
    /\ Unmounted

Next ==
    \/ CheckApiKey
    \/ ClickSelectKey
    \/ SelectKeySettles
    \/ \E link \in Links : SetYoutubeLink(link)
    \/ HandleStartAnalysis
    \/ ThumbnailSettles
    \/ StreamOpens
    \/ \E msg \in ProviderErrors : StreamFails(msg)
    \/ (nChunks < MaxAppChunks /\ \E text \in AppChunks : StreamChunk(text))
    \/ StreamExhausted
    \/ ClickErrorButton
    \/ ClickNewAnalysis

Spec == Init /\ [][Next]_vars

\* openSelectKey() resolves, lines 35-37.
SelectKeyResolves == SelectKeySettles /\ hasApiKey' = TRUE

\* SpecRecovery: the application with a user who keeps using the button of
\* the screen on display, and a key-selection dialog that resolves sooner
\* or later.
SpecRecovery ==
    /\ Init
    /\ [][Next]_vars
    /\ WF_vars(CheckApiKey)
    /\ WF_vars(ClickErrorButton)
    /\ WF_vars(ClickSelectKey)
    /\ SF_vars(SelectKeyResolves)

(***************************************************************************)
(* SpecStream: one analysis call from the opening of its stream, fed with  *)
(* every sequence of at most MaxChunks chunks of TagChunks.                *)
(***************************************************************************)
Streaming ==
    /\ hasApiKey = TRUE
    /\ appState = "ANALYZING_CONTENT"
    /\ youtubeLink = WatchLink
    /\ frames = <<"thumbnail">>
    /\ revivalStrategy = Null
    /\ errorMsg = Null
    /\ aistudio = FALSE
    /\ keyCheck = "done"
    /\ selectPending = 0
    /\ envApiKey = TRUE
    /\ pc = "streaming"
    /\ attempts = 1
    /\ result = Unsettled("pending")
    /\ Unmounted

InitStream ==
    /\ Streaming
    /\ thinkingLog = Empty
    /\ fullText = Empty
    /\ thinkingText = Empty
    /\ calls = << >>
    /\ nChunks = 0

NextStream ==
    \/ (nChunks < MaxChunks /\ \E text \in TagChunks : StreamChunk(text))
    \/ StreamExhausted
    \/ \E msg \in {NetworkMsg} : StreamFails(msg)

SpecStream == InitStream /\ [][NextStream]_vars

(***************************************************************************)
(* SpecFinalize: the end of one analysis call whose stream delivered one   *)
(* of FinalTexts in a single chunk.                                        *)
(***************************************************************************)
InitFinalize ==
    /\ Streaming
    /\ fullText \in FinalTexts
    /\ thinkingText = ScanThinking(fullText, Empty).thinkingText
    /\ thinkingLog = thinkingText
    /\ calls = IF ScanThinking(fullText, Empty).emit
               THEN <<[buf |-> fullText, arg |-> thinkingText]>>
               ELSE << >>
    /\ nChunks = 1

NextFinalize == StreamExhausted

SpecFinalize == InitFinalize /\ [][NextFinalize]_vars

(***************************************************************************)
(* SpecSplit: one analysis call whose stream delivers one of SplitTotals,   *)
(* cut into at most MaxFragments non-empty fragments at any positions.     *)
(***************************************************************************)
\* The text "<thinking>T</thinking>", a line break, a block labelled json
\* that holds P.
Total(T, P) == OpenTag \o T \o CloseTag \o <<"\n">> \o Block(JsonTag, <<"\n">>, P)

SplitCases ==
    { [T |-> <<"a">>, P |-> ObjText(Empty)],
      [T |-> Empty, P |-> ObjText(Member(K_segments, EmptyArrayText))],
      [T |-> <<"a", "\n", "b">>,
       P |-> ObjText(Member(K_originalVideoMetadata, MetadataText))] }

SplitTotals == {Total(c.T, c.P) : c \in SplitCases}

\* The next fragment of a text of which the buffer is a prefix; the last
\* fragment allowed takes all that is left.
SplitChunk ==
    /\ nChunks < MaxFragments
    /\ \E total \in SplitTotals :
        /\ IsPrefix(fullText, total)
        /\ \E n \in 1..(Len(total) - Len(fullText)) :
            /\ nChunks = MaxFragments - 1 => n = Len(total) - Len(fullText)
            /\ StreamChunk(SubSeq(total, Len(fullText) + 1, Len(fullText) + n))

NextSplit ==
    \/ SplitChunk
    \/ (fullText \in SplitTotals /\ StreamExhausted)

SpecSplit == InitStream /\ [][NextSplit]_vars

(***************************************************************************)
(* SpecRender: the end of an analysis whose stream delivered one of        *)
(* DashTexts, and the dashboard that is rendered of its strategy.          *)
(* SpecDashboard: the application from the end of an analysis on, with    *)
(* the overlay requests of the dashboard, the key selection and the way    *)
(* back to the idle screen.                                                *)
(* SpecOverlay: the overlay requests of one dashboard, with every          *)
(* response of ResponseShapes.                                             *)
(***************************************************************************)
RECURSIVE Join(_)
Join(texts) ==
    IF texts = << >> THEN Empty
    ELSE IF Len(texts) = 1 THEN texts[1]
    ELSE texts[1] \o <<",">> \o Join(Tail(texts))

ArrText(texts) == <<"[">> \o Join(texts) \o <<"]">>

SegText(startTime, summary) ==
    ObjText(Both(Member(K_startTime, Quoted(startTime)),
                 Member(K_summary, Quoted(summary))))

Seg0 == SegText(<<"0",":","0","5">>, <<"a">>)
Seg1 == SegText(<<"1",":","0","1",":","0","5">>, <<"b">>)

\* The segments field: absent (no text), or a list of at most two segments.
SegLists == {<< >>, <<Seg0>>, <<Seg0, Seg1>>}

\* Lists of segment indices: in range, negative, beyond the last segment,
\* repeated, out of order.
IndexLists ==
    { << >>, << <<"0">> >>, << <<"0">>, <<"5">> >>, << <<"-","1">>, <<"1">> >>,
      << <<"2">> >>, << <<"1">>, <<"0">> >>, << <<"0">>, <<"0">> >>,
      << <<"1">>, <<"-","2">>, <<"0">> >> }

ItemText(indices) == ObjText(Member(K_affectedSegmentIndices, ArrText(indices)))
\* An item without the optional list.
ItemNoList == ObjText(Member(<<"s","u","b","j","e","c","t">>, Quoted(<<"s">>)))

ItemLists ==
    { <<ItemText(l)>> : l \in IndexLists }
    \cup { << >>, <<ItemNoList>>,
           <<ItemText(<< <<"0">>, <<"5">> >>), ItemText(<< <<"1">> >>)>>,
           <<ItemNoList, ItemText(<< <<"-","1">>, <<"0">> >>)>> }

DashPayloads ==
    { ObjText(Both(Member(K_segments, ArrText(segs)),
                   Member(K_outdatedItems, ArrText(items)))) :
        segs \in SegLists, items \in ItemLists }
    \cup { ObjText(Member(K_outdatedItems, ArrText(items))) : items \in ItemLists }

DashTexts == { Narrative \o Block(JsonTag, <<"\n">>, p) : p \in DashPayloads }

\* The first analysis is about to end on one of texts.
AnalysisEnds(texts) ==
    /\ hasApiKey = TRUE
    /\ appState = "ANALYZING_CONTENT"
    /\ youtubeLink = WatchLink
    /\ frames = <<"thumbnail">>
    /\ revivalStrategy = Null
    /\ errorMsg = Null
    /\ aistudio = TRUE
    /\ keyCheck = "done"
    /\ selectPending = 0
    /\ envApiKey = TRUE
    /\ pc = "streaming"
    /\ attempts = 1
    /\ result = Unsettled("pending")
    /\ fullText \in texts
    /\ thinkingText = ScanThinking(fullText, Empty).thinkingText
    /\ thinkingLog = thinkingText
    /\ calls = <<[buf |-> fullText, arg |-> thinkingText]>>
    /\ nChunks = 1
    /\ Unmounted

InitRender == AnalysisEnds(DashTexts)

NextRender ==
    \/ StreamExhausted
    \/ ClickNewAnalysis

SpecRender == InitRender /\ [][NextRender]_vars

\* The texts of the analysis in SpecDashboard: a strategy with one item and
\* one with two.
OverlayTexts ==
    { Narrative \o Block(JsonTag, <<"\n">>,
        ObjText(Both(Member(K_segments, ArrText(<<Seg0, Seg1>>)),
                     Member(K_outdatedItems, ArrText(items))))) :
        items \in { <<ItemText(<< <<"0">>, <<"5">> >>)>>,
                    <<ItemText(<< <<"0">>, <<"5">> >>), ItemText(<< <<"1">> >>)>> } }

InitDashboard == AnalysisEnds(OverlayTexts)

NextDashboard ==
    \/ StreamExhausted
    \/ \E k \in 1..2 : ClickVisualize(k)
    \/ \E k \in DOMAIN overlays, shape \in DashShapes :
            OverlayAnswered(k, shape)
    \/ \E k \in DOMAIN overlays, msg \in ProviderErrors : OverlayFails(k, msg)
    \/ ClickSelectKey
    \/ SelectKeySettles
    \/ ClickNewAnalysis

SpecDashboard == InitDashboard /\ [][NextDashboard]_vars

NextOverlay ==
    \/ StreamExhausted
    \/ \E k \in 1..2 : ClickVisualize(k)
    \/ \E k \in DOMAIN overlays, shape \in ResponseShapes :
            OverlayAnswered(k, shape)
    \/ \E k \in DOMAIN overlays, msg \in ProviderErrors : OverlayFails(k, msg)

SpecOverlay == InitDashboard /\ [][NextOverlay]_vars

(***************************************************************************)
(* SpecReanalysis: the application from the end of its first analysis on,  *)
(* with streams that carry one of two different strategies or a block that *)
(* does not parse.                                                         *)
(***************************************************************************)
SegmentsOnly == Block(JsonTag, <<"\n">>, ObjText(Member(K_segments, EmptyArrayText)))
ItemsOnly == Block(JsonTag, <<"\n">>, ObjText(Member(K_outdatedItems, EmptyArrayText)))
ReChunks == {SegmentsOnly, ItemsOnly, Block(JsonTag, <<"\n">>, <<"{">>)}

InitReanalysis == AnalysisEnds(ReChunks)

NextReanalysis ==
    \/ StreamExhausted
    \/ ClickNewAnalysis
    \/ HandleStartAnalysis
    \/ ThumbnailSettles
    \/ StreamOpens
    \/ (nChunks < MaxAppChunks /\ \E text \in ReChunks : StreamChunk(text))
    \/ \E msg \in ProviderErrors : StreamFails(msg)
    \/ ClickErrorButton
    \/ ClickSelectKey
    \/ SelectKeySettles

SpecReanalysis == InitReanalysis /\ [][NextReanalysis]_vars

\* The start button is offered only while no analysis call is pending.
NoCallWhileIdle == appState = "IDLE" => pc = "none"

(***************************************************************************)
(* Properties of the narrative callbacks (SpecStream).  calls[i].buf is    *)
(* the accumulated buffer at the i-th invocation of onThinking and         *)
(* calls[i].arg the text passed to it.                                     *)
(***************************************************************************)
PartialOpenTag == <<"<","t","h","i">>

\* C1: onThinking is never invoked while the buffer holds no complete
\* "<thinking>" tag, also while the tag is only partially received; as long
\* as the buffer holds no such tag, no callback has fired and the log shown
\* is empty.
C1_NoPrematureEmission ==
    /\ \A i \in 1..Len(calls) : Includes(calls[i].buf, OpenTag)
    /\ ~Includes(fullText, OpenTag) => calls = << >> /\ thinkingLog = Empty

\* Two chunks or more were consumed, the buffer holds the beginning of the
\* tag and not the tag, and nothing was emitted.
C1_Witness ==
    /\ nChunks >= 2
    /\ Includes(fullText, PartialOpenTag)
    /\ ~Includes(fullText, OpenTag)
    /\ calls = << >>

\* C2 as claimed: once the buffer holds a closing tag (anywhere), every
\* value passed to onThinking from then on is the same.
C2_FrozenOnceCloseTagSeen ==
    \A i, j \in 1..Len(calls) :
        (i < j /\ Includes(calls[i].buf, CloseTag)) => calls[j].arg = calls[i].arg

\* The buffer holds a closing tag to the right of its first opening tag.
ClosedNarrative(buf) ==
    /\ Includes(buf, OpenTag)
    /\ \E c \in Occurrences(buf, CloseTag) : c >= IndexOf(buf, OpenTag) + Len(OpenTag)

\* C2, amended: once the buffer holds a closing tag after its first opening
\* tag, every value passed to onThinking from then on is the same, and it is
\* the value shown.
C2_FrozenOnceNarrativeClosed ==
    \A i, j \in 1..Len(calls) :
        (i <= j /\ ClosedNarrative(calls[i].buf)) =>
            /\ calls[j].arg = calls[i].arg
            /\ thinkingLog = calls[i].arg

\* A callback on a closed narrative was followed by a callback on a longer
\* buffer that holds a second closing tag.
C2_Witness ==
    \E i, j \in 1..Len(calls) :
        /\ i < j
        /\ ClosedNarrative(calls[i].buf)
        /\ Len(calls[j].buf) > Len(calls[i].buf)
        /\ Cardinality(Occurrences(calls[j].buf, CloseTag)) >= 2

\* C3: at every callback made while the buffer holds an opening tag and no
\* closing tag, the value passed is all the text after the first opening tag.
C3_ProvisionalNarrative ==
    \A i \in 1..Len(calls) :
        (Includes(calls[i].buf, OpenTag) /\ ~Includes(calls[i].buf, CloseTag)) =>
            calls[i].arg =
                From(calls[i].buf, IndexOf(calls[i].buf, OpenTag) + Len(OpenTag))

\* A callback on an open narrative that holds text and a second opening tag.
C3_Witness ==
    \E i \in 1..Len(calls) :
        /\ ~Includes(calls[i].buf, CloseTag)
        /\ Cardinality(Occurrences(calls[i].buf, OpenTag)) >= 2
        /\ Includes(calls[i].arg, <<"a">>)

\* C4: each value passed to onThinking has the value passed before it as a
\* prefix.
C4_NarrativeOnlyGrows ==
    \A i \in 1..(Len(calls) - 1) : IsPrefix(calls[i].arg, calls[i + 1].arg)

\* C20 as stated: a chunk triggers the callback exactly when it changes the
\* narrative derived from the buffer.
C20_EmissionOnlyOnChange ==
    [][ nChunks' = nChunks + 1 =>
            (Len(calls') = Len(calls) + 1 <=> thinkingText' # thinkingText) ]_vars

\* C20: a chunk triggers at most one callback, before the next chunk is
\* consumed, with the narrative derived from the buffer; it does so exactly
\* when the buffer then holds the opening tag, whether or not the narrative
\* has changed.  So every change of the narrative is passed on at once.
C20_EmissionOnEveryChunk ==
    [][ nChunks' = nChunks + 1 =>
            /\ Len(calls') \in {Len(calls), Len(calls) + 1}
            /\ Len(calls') = Len(calls) + 1 <=> Includes(fullText', OpenTag)
            /\ Len(calls') = Len(calls) + 1 =>
                   /\ calls'[Len(calls')] = [buf |-> fullText', arg |-> thinkingText']
                   /\ thinkingLog' = thinkingText'
            /\ thinkingText' # thinkingText => Len(calls') = Len(calls) + 1 ]_vars

\* Four callbacks: the third on an empty chunk after the closing tag, the
\* fourth on a chunk with text after it, all three with the same narrative.
C20_Witness ==
    /\ Len(calls) = 4
    /\ Includes(calls[2].buf, CloseTag)
    /\ calls[3].buf = calls[2].buf
    /\ calls[4].buf # calls[3].buf
    /\ calls[3].arg = calls[2].arg
    /\ calls[4].arg = calls[2].arg

(***************************************************************************)
(* Properties of the end of the call (SpecFinalize, Spec).                 *)
(***************************************************************************)
\* An opening fence followed, after it, by a closing fence.
HasCompleteBlock(text) ==
    \E i, j \in Occurrences(text, Fence) : j >= i + Len(Fence)

\* The first block of the buffer, and what JSON.parse makes of it.
BlockParse(text) == JSONparse(JsonMatch(text).g1)
BlockParses(text) ==
    LET jsonMatch == JsonMatch(text)
    IN  jsonMatch.matched /\ JSONparse(jsonMatch.g1).ok

\* C5: when the stream ends on a buffer without a complete fenced block, the
\* call rejects with the no-block error and returns no strategy.
C5_NoBlockIsHardFailure ==
    (result.at = "finalize" /\ ~HasCompleteBlock(fullText)) =>
        /\ result.kind = "error"
        /\ result.msg = NoBlockMsg
        /\ result.val = Undefined
        /\ revivalStrategy = Null

\* The call ended on a buffer that holds an opening fence and a payload but
\* no closing fence.
C5_Witness ==
    /\ result.at = "finalize"
    /\ ~HasCompleteBlock(fullText)
    /\ Includes(fullText, Fence \o JsonTag)
    /\ result.kind = "error"

\* C6: when the stream ends on a buffer whose block does not parse as JSON
\* or that holds no block, the call rejects, App moves to ERROR with the
\* message of the error and revivalStrategy is left as it was; and for as
\* long as a rejection of this stage is the outcome of the latest attempt,
\* the dashboard is not displayed.
C6_ExtractionFailureAborts ==
    [][ /\ (pc = "streaming" /\ result'.at = "finalize"
                /\ ~BlockParses(fullText')) =>
               /\ result'.kind = "error"
               /\ result'.msg \in {NoBlockMsg, ParseErrorMsg}
               /\ appState' = "ERROR"
               /\ errorMsg' = Str(result'.msg)
               /\ revivalStrategy' = revivalStrategy
               /\ ~DashboardShown'
        /\ (result.at = "finalize" /\ result.kind = "error"
                /\ result' = result) => ~DashboardShown' ]_vars

\* A second analysis failed in extraction after a first one had produced a
\* strategy: App is in ERROR and still holds the earlier strategy.
C6_Witness ==
    /\ result.at = "finalize"
    /\ JsonMatch(fullText).matched
    /\ ~BlockParses(fullText)
    /\ appState = "ERROR"
    /\ errorMsg = Str(ParseErrorMsg)
    /\ revivalStrategy # Null

\* C7: for every extracted block whose content parses as JSON, the call
\* returns a value whose originalVideoMetadata is set.
C7_RepairNeverFails ==
    (result.at = "finalize" /\ BlockParses(fullText)) =>
        /\ result.kind = "value"
        /\ GetProp(result.val, K_originalVideoMetadata) # Undefined

\* C8: a block that holds {"RevivalStrategy": X} or {"revivalStrategy": X},
\* X of the shape of a RevivalStrategy, gives the result of the block that
\* holds X.
C8_WrapperEquivalence ==
    result.at = "finalize" =>
        \A pre \in Prefixes, tag \in BlockTags, sep \in BlockSeps,
           x \in StrategyTexts, k \in {K_RevivalStrategy, K_revivalStrategy} :
            fullText = pre \o Block(tag, sep, Wrapped(k, x)) =>
                /\ result.kind = "value"
                /\ result = Settled(Finalize(pre \o Block(tag, sep, x)), "finalize")

\* The call ended on a block holding a strategy under the lower-case wrapper
\* key and returned the strategy, not the wrapper.
C8_Witness ==
    /\ result.at = "finalize"
    /\ \E x \in StrategyTexts :
        /\ fullText = Block(JsonTag, <<"\n">>, Wrapped(K_revivalStrategy, x))
        /\ K_segments \in DOMAIN BlockParse(Block(JsonTag, <<"\n">>, x)).val.v
    /\ result.kind = "value"
    /\ K_segments \in DOMAIN result.val.v
    /\ K_revivalStrategy \notin DOMAIN result.val.v

\* The unwrapped payload of a buffer whose block parses to a non-null value.
Payload(text) == Unwrap(BlockParse(text).val)
IsContainer(x) == x.t \in {"obj", "arr"}
\* The named fields of an object, or of an array.
Fields(x) == IF x.t = "obj" THEN x.v ELSE x.p

\* C9 as claimed: when the unwrapped payload has no originalVideoMetadata
\* (or null for it) the result carries the default and every other field
\* of the payload; when the payload has one, the payload is returned
\* unchanged.
C9_MetadataRepairWhenAbsent ==
    (result.at = "finalize" /\ BlockParses(fullText)
        /\ ~IsNullish(BlockParse(fullText).val) /\ IsContainer(Payload(fullText))) =>
        LET payload == Payload(fullText)
            has == /\ K_originalVideoMetadata \in DOMAIN Fields(payload)
                   /\ Fields(payload)[K_originalVideoMetadata] # Null
        IN  /\ result.kind = "value"
            /\ has => result.val = payload
            /\ ~has => result.val = SetProp(payload, K_originalVideoMetadata, DefaultMetadata)

\* C9, amended: when the unwrapped payload (an object or an array) has no
\* originalVideoMetadata or a falsy one (null, false, 0, ""), the result has
\* the default metadata and every other field of the payload; when the
\* payload has a truthy originalVideoMetadata it is returned unchanged.
C9_MetadataRepairWhenFalsy ==
    (result.at = "finalize" /\ BlockParses(fullText)
        /\ ~IsNullish(BlockParse(fullText).val) /\ IsContainer(Payload(fullText))) =>
        LET payload == Payload(fullText)
            has == /\ K_originalVideoMetadata \in DOMAIN Fields(payload)
                   /\ Truthy(Fields(payload)[K_originalVideoMetadata])
            others == (DOMAIN Fields(payload)) \ {K_originalVideoMetadata}
        IN  /\ result.kind = "value"
            /\ has => result.val = payload
            /\ ~has =>
                /\ result.val.t = payload.t
                /\ DOMAIN Fields(result.val) = others \cup {K_originalVideoMetadata}
                /\ Fields(result.val)[K_originalVideoMetadata] = DefaultMetadata
                /\ \A f \in others : Fields(result.val)[f] = Fields(payload)[f]
                /\ payload.t = "arr" => result.val.v = payload.v

\* The call ended on a payload whose originalVideoMetadata is present, falsy
\* and not null, next to another field, and returned it repaired.
C9_Witness ==
    /\ result.at = "finalize"
    /\ BlockParses(fullText)
    /\ BlockParse(fullText).val.t = "obj"
    /\ Payload(fullText).t = "obj"
    /\ K_originalVideoMetadata \in DOMAIN Payload(fullText).v
    /\ IsPrimitive(Payload(fullText).v[K_originalVideoMetadata])
    /\ ~Truthy(Payload(fullText).v[K_originalVideoMetadata])
    /\ K_segments \in DOMAIN Payload(fullText).v
    /\ result.kind = "value"
    /\ result.val.v[K_originalVideoMetadata] = DefaultMetadata

\* C10: a buffer whose block is labelled json in any case, or not labelled,
\* gives the result of the buffer whose block is labelled json in lower
\* case, for the same payload text.
C10_LabelRobustness ==
    result.at = "finalize" =>
        \A pre \in Prefixes, tag \in BlockTags, sep \in BlockSeps,
           payload \in PayloadTexts :
            fullText = pre \o Block(tag, sep, payload) =>
                result = Settled(Finalize(pre \o Block(JsonTag, sep, payload)), "finalize")

\* The call ended on a block labelled JSON in upper case and returned a
\* strategy.
C10_Witness ==
    /\ result.at = "finalize"
    /\ \E sep \in BlockSeps, payload \in StrategyTexts :
        fullText = Narrative \o Block(<<"J","S","O","N">>, sep, payload)
    /\ result.kind = "value"

\* C18: when the buffer holds two fenced blocks, the text handed to
\* JSON.parse is the content of the first one, also when it lies inside the
\* thinking section and is not labelled, and the call settles as it does on
\* the first block alone; the second block has no part in it.
C18_FirstBlockWins ==
    result.at = "finalize" =>
        \A c \in TwoBlockCases :
            fullText = TwoBlockText(c) =>
                /\ JsonMatch(fullText).g1 = c.first
                /\ result = Settled(Finalize(Block(c.tag, <<"\n">>, c.first)),
                                    "finalize")
                /\ result.kind = "value" <=> JSONparse(c.first).ok

\* The call ended on a buffer whose thinking section holds an unlabelled
\* block with a segments field, followed by a block labelled json with
\* another field: the strategy returned is the one of the first block.
C18_Witness ==
    /\ result.at = "finalize"
    /\ fullText = TwoBlockText([inside |-> TRUE, tag |-> Empty,
                                first |-> ObjText(Member(K_segments, EmptyArrayText)),
                                second |-> ObjText(Member(K_predictedViews,
                                                          <<"1","0","0">>))])
    /\ result.kind = "value"
    /\ K_segments \in DOMAIN result.val.v
    /\ K_predictedViews \notin DOMAIN result.val.v

\* C19: the parsed payload is replaced by a nested value if and only if it
\* has a single field and the key of that field is RevivalStrategy or
\* revivalStrategy; every other payload is passed through to the repair of
\* the metadata as it is.
C19_UnwrapCondition ==
    (result.at = "finalize" /\ result.kind = "value") =>
        LET parsed == BlockParse(fullText).val
            wrapper == /\ parsed.t = "obj"
                       /\ \/ DOMAIN parsed.v = {K_RevivalStrategy}
                          \/ DOMAIN parsed.v = {K_revivalStrategy}
            kept == IF wrapper
                    THEN parsed.v[CHOOSE k \in DOMAIN parsed.v : TRUE]
                    ELSE parsed
        IN  IsContainer(kept) => result.val = Repair(kept).val

(***************************************************************************)
(* Properties of a whole call on a text cut into fragments (SpecSplit).    *)
(***************************************************************************)
EndsWith(s, pat) == Len(pat) <= Len(s) /\ From(s, Len(s) - Len(pat) + 1) = pat

\* The object x with the default metadata when it has no metadata field.
WithDefaultMetadata(x) ==
    IF K_originalVideoMetadata \in DOMAIN x.v THEN x
    ELSE Obj(Put(x.v, K_originalVideoMetadata, DefaultMetadata))

\* C11: whatever the fragments into which "<thinking>T</thinking>" followed
\* by a json block holding P is cut, when the stream is exhausted the last
\* value passed to onThinking (and shown) is T and the call returns P, with
\* the default originalVideoMetadata when P has none.
C11_FragmentationIndependence ==
    \A c \in SplitCases :
        (result.at = "finalize" /\ fullText = Total(c.T, c.P)) =>
            /\ calls # << >>
            /\ calls[Len(calls)].arg = c.T
            /\ thinkingLog = c.T
            /\ result.kind = "value"
            /\ result.val = WithDefaultMetadata(JSONparse(c.P).val)

\* A call returned a strategy after a first fragment that ended inside the
\* closing tag and passed the cut tag to onThinking.
C11_Witness ==
    /\ result.at = "finalize"
    /\ result.kind = "value"
    /\ Len(calls) = 2
    /\ EndsWith(calls[1].buf, <<"<", "/", "t", "h">>)
    /\ calls[1].arg # calls[2].arg

(***************************************************************************)
(* Properties of the whole application (Spec).                             *)
(***************************************************************************)
\* C12: when the iteration of the response stream throws, after any number
\* of chunks, the call rejects with the error the stream raised, message
\* unchanged, and returns no value; the end of the call (extraction and
\* parsing) is not run and revivalStrategy is left as it was; and for as
\* long as this rejection is the outcome of the latest call, onThinking is
\* not invoked again and the log shown does not change.
C12_AbortedStream ==
    [][ /\ \A msg \in ProviderErrors :
            (pc = "streaming" /\ StreamFails(msg)) =>
                /\ result' = Settled(Throw(msg), "stream")
                /\ result'.val = Undefined
                /\ pc' = "none"
                /\ calls' = calls
                /\ thinkingLog' = thinkingLog
                /\ revivalStrategy' = revivalStrategy
        /\ (result.at = "stream" /\ result' = result) =>
                /\ calls' = calls
                /\ thinkingLog' = thinkingLog
                /\ revivalStrategy' = revivalStrategy
                /\ pc' = "none" ]_vars

\* The stream threw after chunks that had brought a narrative and a block
\* that parses: onThinking had been invoked, and App holds no strategy.
C12_Witness ==
    /\ result.at = "stream"
    /\ result.msg = NetworkMsg
    /\ nChunks >= 2
    /\ calls # << >>
    /\ BlockParses(fullText)
    /\ revivalStrategy = Null
    /\ appState = "ERROR"

\* C15: from the start of an analysis until it completes, that is while
\* handleStartAnalysis is suspended, App holds no strategy of an earlier
\* analysis.
C15_PreviousStrategyDiscarded == pc # "none" => revivalStrategy = Null

\* C16: when an analysis fails, App ends in ERROR with the message of the
\* failure recorded (the fallback text when there is none).  When the
\* message contains "403", "permission" or "PERMISSION_DENIED", hasApiKey
\* is reset and the key-selection screen is shown; else hasApiKey is left
\* unchanged and, the key being held, the error screen offers Try Again.
C16_ReauthenticationOnPermissionFailure ==
    [][ (result' # result /\ result'.kind = "error") =>
            LET msg == IF result'.msg # Empty THEN result'.msg ELSE FallbackMsg
            IN  /\ appState' = "ERROR"
                /\ errorMsg' = Str(msg)
                /\ IF \/ Occurrences(msg, <<"4","0","3">>) # {}
                      \/ Occurrences(msg, <<"p","e","r","m","i","s","s","i","o","n">>) # {}
                      \/ Occurrences(msg, <<"P","E","R","M","I","S","S","I","O","N","_","D","E","N","I","E","D">>) # {}
                   THEN /\ ~hasApiKey'
                        /\ KeyScreenShown'
                   ELSE /\ hasApiKey' = hasApiKey
                        /\ hasApiKey =>
                               /\ ErrorShown'
                               /\ ErrorButtonLabel' = "Try Again" ]_vars

\* An analysis has failed with "403 Forbidden": the key screen is shown.
C16_Witness ==
    /\ result.kind = "error"
    /\ result.msg = ForbiddenMsg
    /\ appState = "ERROR"
    /\ errorMsg = Str(ForbiddenMsg)
    /\ ~hasApiKey
    /\ KeyScreenShown

\* C24: whenever the dashboard is displayed, no analysis is pending, the
\* analysis started last has returned a value, and the strategy passed to
\* the dashboard is that value, the one derived from the stream of that
\* analysis.
C24_DashboardShowsLatestAnalysis ==
    DashboardShown =>
        /\ pc = "none"
        /\ result.kind = "value"
        /\ result.at = "finalize"
        /\ revivalStrategy = result.val
        /\ revivalStrategy = Finalize(fullText).val

\* The dashboard on the strategy of a second analysis, which carried the
\* items only.
C24_Witness ==
    /\ DashboardShown
    /\ attempts = 2
    /\ fullText = ItemsOnly
    /\ K_outdatedItems \in DOMAIN revivalStrategy.v
    /\ K_segments \notin DOMAIN revivalStrategy.v

\* C23: whenever an analysis has failed, the user gets back to the idle
\* screen, where a new analysis can be started, by using the buttons of the
\* error screen and of the key-selection screen.
C23_ErrorNeverDeadEnd == (appState = "ERROR") ~> IdleShown

\* Why the claim fails: the button of the error screen never leaves the
\* error screen while the message contains "permission", and no handler
\* sets hasApiKey once the mount effect has run on a host without
\* window.aistudio.
ErrorWithPermissionStays ==
    [][ (/\ appState = "ERROR"
         /\ Occurrences(errorMsg.v, <<"p","e","r","m","i","s","s","i","o","n">>) # {})
            => appState' = "ERROR" /\ errorMsg' = errorMsg ]_vars
KeyScreenWithoutHostStays ==
    [][ (~aistudio /\ keyCheck = "done" /\ ~hasApiKey /\ appState = "ERROR")
            => ~hasApiKey' /\ appState' = "ERROR" ]_vars

(***************************************************************************)
(* Properties of the rendered dashboard (SpecRender).                      *)
(***************************************************************************)
\* The index list an item declares, empty when it declares none.
DeclaredIndices(item) ==
    IF K_affectedSegmentIndices \in DOMAIN item.v
    THEN item.v[K_affectedSegmentIndices].v ELSE << >>

\* The segments and the items the strategy on display declares.
DeclaredSegments ==
    IF K_segments \in DOMAIN revivalStrategy.v
    THEN revivalStrategy.v[K_segments].v ELSE << >>
DeclaredItems ==
    IF K_outdatedItems \in DOMAIN revivalStrategy.v
    THEN revivalStrategy.v[K_outdatedItems].v ELSE << >>

\* C13: for a strategy whose segments are objects and whose indices are
\* integers, the dashboard renders without raising, and the row of every
\* outdated item holds one timestamp link for each entry i of its index
\* list with 0 <= i < segments.length, in the order of the list, to the
\* start time of segment i, and nothing for any other entry.
C13_OutOfRangeIndicesTolerated ==
    DashboardShown =>
        /\ view.mounted
        /\ ~view.crashed
        /\ Len(view.links) = Len(DeclaredItems)
        /\ \A k \in 1..Len(DeclaredItems) :
            LET valid == SelectSeq(DeclaredIndices(DeclaredItems[k]),
                                   LAMBDA i : i.v >= 0 /\ i.v < Len(DeclaredSegments))
            IN  /\ Len(view.links[k]) = Len(valid)
                /\ \A j \in 1..Len(valid) :
                    LET segment == DeclaredSegments[valid[j].v + 1]
                        link == view.links[k][j]
                    IN  /\ link.key = valid[j]
                        /\ link.text = segment.v[K_startTime]
                        /\ link.title = segment.v[K_summary]
                        /\ link.href = [url |-> youtubeLink,
                                        t |-> Seconds(segment.v[K_startTime].v)]

\* Two segments and an item that names 0 and 5: one link, to 0:05.
C13_Witness ==
    /\ DashboardShown
    /\ Len(DeclaredSegments) = 2
    /\ Len(DeclaredItems) = 1
    /\ DeclaredIndices(DeclaredItems[1]) = <<Num(0), Num(5)>>
    /\ Len(view.links[1]) = 1
    /\ view.links[1][1].key = Num(0)
    /\ view.links[1][1].href = [url |-> WatchLink, t |-> Num(5)]

\* C22: the figure "Segments Impacted" is the number of distinct indices i
\* over all outdated items with 0 <= i < segments.length, and so never
\* exceeds the number of segments.
C22_ImpactFigureSkipsOutOfRange ==
    DashboardShown =>
        LET named == UNION { { DeclaredIndices(DeclaredItems[k])[j] :
                                 j \in 1..Len(DeclaredIndices(DeclaredItems[k])) } :
                             k \in 1..Len(DeclaredItems) }
            valid == { i \in named : i.v >= 0 /\ i.v < Len(DeclaredSegments) }
        IN  /\ view.impacted = Cardinality(valid)
            /\ view.impacted <= Len(DeclaredSegments)

(***************************************************************************)
(* Properties of the overlay requests (SpecDashboard).                     *)
(***************************************************************************)
\* The messages an overlay request fails with: those of the provider, the
\* one of line 192 and the one of the TypeError of line 187.
OverlayErrors == ProviderErrors \cup {NoImageMsg, StartsWithOfUndefinedMsg}

\* What every failed overlay request leaves alone: the state of the report
\* and the analysis call.
ReportUntouched ==
    /\ appState' = appState
    /\ revivalStrategy' = revivalStrategy
    /\ errorMsg' = errorMsg
    /\ pc' = pc
    /\ attempts' = attempts
    /\ result' = result

IsImageKind(kind) == kind \in {"png", "jpeg"}

\* The parts of the response that was answered: those of its first
\* candidate, none when it has no candidate, no content or no parts.
AnsweredParts ==
    IF settled.response.candidates /\ settled.response.list # << >>
    THEN settled.response.list[1].parts ELSE << >>

\* The data URL of the image a response of the model holds for a kind.
UrlOfKind(kind, k) ==
    Str(<<"d","a","t","a",":">>
        \o (IF kind = "png" THEN PngMime ELSE JpegMime)
        \o <<";","b","a","s","e","6","4",",">>
        \o (IF kind = "png" THEN <<Digits[k + 1]>> ELSE <<"J">>))

\* C17: an answered overlay call returns the data URL of the first part, in
\* order, that carries inline data with an image/* mime type, and fails
\* with "No image generated" exactly when the response has no candidate, no
\* parts or no such part.
C17_OverlayResponseHandling ==
    (settled.kind # "none" /\ settled.response # NoResponse) =>
        LET images == SelectSeq(AnsweredParts, IsImageKind)
        IN  /\ images # << >> =>
                /\ settled.kind = "value"
                /\ \E k \in 1..2 : settled.val = UrlOfKind(images[1], k)
            /\ images = << >> =>
                /\ settled.kind = "error"
                /\ settled.msg = NoImageMsg

(***************************************************************************)
(* Properties of concurrent overlay requests (SpecDashboard).              *)
(***************************************************************************)
\* The overlay calls of the dashboard on display that are pending.
LiveCalls == {k \in DOMAIN overlays : overlays[k].live}

\* C21 as stated: the dashboard never has two overlay requests pending.
C21_AtMostOneOverlayInFlight == Cardinality(LiveCalls) <= 1

\* C21: every click on Visualize starts exactly one overlay request, after
\* those already pending, and shows the indicator; the click is accepted
\* whenever the dashboard is on display, also while earlier requests are
\* pending (up to the MaxOverlays calls the model follows at once).
C21_OneRequestPerClick ==
    /\ []((/\ DashboardShown
           /\ ~view.crashed
           /\ Len(ItemsOf(revivalStrategy).v) >= 1
           /\ Len(overlays) < MaxOverlays) => ENABLED ClickVisualize(1))
    /\ [][ Len(overlays') > Len(overlays) =>
               /\ overlays' = Append(overlays, overlays'[Len(overlays')])
               /\ overlays'[Len(overlays')].live
               /\ overlays'[Len(overlays')].frame = frames[1]
               /\ isGeneratingImage'
               /\ generatedImage' = Null
               /\ ReportUntouched /\ hasApiKey' = hasApiKey ]_vars

\* Two requests of the dashboard on display are pending.
C21_Witness ==
    /\ DashboardShown
    /\ Cardinality(LiveCalls) = 2
    /\ isGeneratingImage

\* C25: once no overlay request of the dashboard is pending, the image
\* shown is the result of the request started last, null if that request
\* failed; and the indicator is on while a request is pending.
C25_OverlayMatchesLatestRequest ==
    (DashboardShown /\ ~view.crashed) =>
        /\ (LiveCalls = {} /\ latest.kind # "none") =>
               generatedImage = (IF latest.kind = "value" THEN latest.val ELSE Null)
        /\ LiveCalls # {} => isGeneratingImage

=============================================================================
